---------------------------- MODULE Spec2Model ----------------------------
(***************************************************************************)
(* A model of the wasd HTTP server: the handler registry (routing table),  *)
(* the per-connection session state machine with its worker threads, the   *)
(* CRUD handler over the filesystem, and the path resolution of the        *)
(* static, CRUD and Markdown handlers.                                     *)
(*                                                                         *)
(* Strings of the program (URL prefixes, request targets, file names) are  *)
(* sequences of one-character strings, so that prefix tests, substring     *)
(* searches, std::stoi and std::to_string are computed as the code         *)
(* computes them.                                                          *)
(*                                                                         *)
(* The module holds several specifications over one set of variables; a    *)
(* specification leaves the variables of the other parts unchanged:        *)
(*   SpecRoute   - HandlerRegistry::Init / Match and the dispatch step     *)
(*   Spec        - one session: reading, keep-alive, post-processing       *)
(*   SpecPool    - the acceptor, the sessions and the io_service threads   *)
(*   SpecCrud    - CrudRequestHandler on a shared filesystem               *)
(*   SpecPath    - the filesystem paths each handler touches for a target  *)
(*   SpecMain    - main(): config, port, registry, server start, exit      *)
(*   SpecCache   - the directory listings of markdown_handler and their    *)
(*                 cache, on two workers                                   *)
(*   SpecMd      - the file branch of markdown_handler, conditional GET    *)
(*   SpecConfig  - the config parser and the serializer                    *)
(*   SpecBlank   - the config parser on whitespace and comments            *)
(*   SpecFs      - MockFileSystem and RealFileSystem                       *)
(*   SpecTpl     - markdown_handler with a wrapper template                *)
(*   SpecLife    - construction and destruction of the session objects     *)
(*   SpecLoc     - HandlerRegistry::Init on location statements of every   *)
(*                 shape                                                   *)
(*   SpecLock    - the mutex of the directory cache, step by step          *)
(*   SpecStore   - a CrudRequestHandler per request over either filesystem *)
(***************************************************************************)
EXTENDS Integers, Sequences, FiniteSets, TLC

VARIABLES
    \* ---- routing (HandlerRegistry) ----
    config,       \* the parsed top-level statements handed to Init
    regState,     \* "start" | "ok" | "failed"  (the result of Init)
    mappings_,    \* HandlerRegistry::mappings_
    disp,         \* the last dispatch of session::handle_read, or NoDisp
    \* ---- one session (class session) ----
    pc,           \* "reading" | "writing" | "closed" | "crashed"
    req_,         \* session::req_
    res_,         \* session::res_ (NoRes: the null unique_ptr)
    lastIo,       \* the error_code the last completion handler received
    readErr,      \* a read has failed with an error other than end_of_stream
    reqLog,       \* the requests read on the connection, in order
    resLog,       \* the requests whose response was written completely
    held,         \* what the session object owns and has not released
    \* ---- the server: acceptor, sessions and the threads running io_service ----
    ppc,          \* per connection: "new" | "reading" | "sleeping" | "pending" |
                  \* "writing" | "closed"
    thr,          \* per thread: the connection whose handler it is blocked in, or 0
    armed,        \* the connection the outstanding async_accept is for
    pkeep,        \* per connection: keep_alive() of the response being written
    behind,       \* per connection: served while another request sleeps (0, 1, 2)
    alive,        \* the process is running
    nreads,       \* the requests read so far
    started,      \* the connections whose session::start() was called by the server
    phase,        \* "running" | "stopped" (io_service.stop() was called) | "exited"
    inflight,     \* the connections with a request or response in flight at the signal
    \* ---- the CRUD handler over the filesystem, on the worker threads ----
    files,        \* <<type, name>> |-> content, for every entity file
    dirs,         \* the entity types whose directory exists under data_path
    cthr,         \* per thread: the POST or PUT it is inside, and how far it got
    crudRes,      \* the response returned last
    lastPost,     \* the POST answered 201 by the last step, if any
    getAfter,     \* the GET of that entity handled right after it, if any
    lastAssign,   \* the id generate_id returned last and the listing it saw
    crudOps,      \* the requests handled so far
    fsFault,      \* the filesystem call that failed in the last request answered
    lastPut,      \* the last PUT that was stored: its status, what it replaced
    \* ---- one request resolved to filesystem paths by a file-serving handler ----
    pathReq,      \* the handler and the request target
    pathAcc,      \* the files read and the directories listed for it
    pathDone,     \* the handler has returned
    \* ---- main(): from the config file to the running server ----
    mainPc,       \* "start" | "parsed" | "ported" | "built" | "running" | "exited"
    mainIn,       \* the outcome of Parse, the port token and the statements
    exitCode,     \* the value main returned, -1 while it runs
    serverStarted,\* the server was constructed: an accept is armed
    clock,        \* steady_clock, in ticks
    dirGen,       \* how often the listed directory has changed
    dirSize,      \* the size of the page the directory renders to
    g_dir_cache,  \* the cache entry of the directory
    wpc,          \* per worker: "idle" | "miss" (past the cache lookup)
    wnow,         \* per worker: the time point `now` of its request
    listings,     \* the listing responses returned so far
    mdFile,       \* the requested .md file: exists, size, mtime (ticks)
    mdPrev,       \* the request-response exchange before the last
    mdLast,       \* the last exchange for the file
    mdOn,         \* a Markdown handler serves the file
    cfgIn,        \* the text of a config file
    cfgPc,        \* "read" | "parsed" | "serialized" | "reparsed" | "rejected"
    cfgTree,      \* the outcome of Parse on the text
    cfgText,      \* the serialization of the parsed tree
    cfgBack,      \* the outcome of Parse on the serialization
    \* ---- the FileSystem implementations ----
    fsImpl,       \* "MockFileSystem" | "RealFileSystem"
    fsDirs,       \* the directories that exist, each with the names listed in it
    fsFiles,      \* the files that exist, as <<directory, name>>
    lastMk,       \* the last create_directory call: what it found, returned, left
    should_fail,  \* the operations whose MockFileSystem failure flag is set
    lastCall,     \* the last call: its operation, its flag and what it reported
    \* ---- markdown_handler and its wrapper template ----
    template_path_,  \* markdown_handler::template_path_, "" when none is configured
    tplFile,      \* the template file: "missing" | "unreadable" | "large" | "plain" | "placeholder"
    tplMd,        \* the Markdown file requested
    tplRes,       \* the last response: status, body, whether the file was rendered
    \* ---- the lifetime of the session objects ----
    sess,         \* per session created by start_accept: state, destructor runs, pending operations, requests answered
    callbacks,    \* per io_service thread: the completion handler it is running, or NoCall
    late,         \* a completion handler has been run for a session already destroyed
    stopped,      \* io_service.stop() has been called or the process has died
    \* ---- the mutex of the directory cache ----
    g_dir_cache_mu,  \* the worker that holds g_dir_cache_mu, 0 when it is free
    lpc,          \* per worker: where it is in the directory branch of handle_request
    fresh,        \* g_dir_cache holds an entry for the directory that is younger than the TTL
    served,       \* how many directory requests have been answered
    \* ---- one CrudRequestHandler per request over a FileSystemInterface ----
    fs_,          \* CrudRequestHandler::fs_: "MockFileSystem" | "RealFileSystem"
    stDirs,       \* directory path |-> the names list_directory returns for it
    stFiles,      \* file path |-> content
    stLast        \* the verb and the status of the request handled last

routeVars == <<config, regState, mappings_, disp>>
sessVars == <<pc, req_, res_, lastIo, readErr, reqLog, resLog, held>>
poolVars ==
    <<ppc, thr, armed, pkeep, behind, alive, nreads, started, phase, inflight>>
crudVars ==
    <<files, dirs, cthr, crudRes, lastPost, getAfter, lastAssign, crudOps,
      fsFault, lastPut>>

pathVars == <<pathReq, pathAcc, pathDone>>
mainVars == <<mainPc, mainIn, exitCode, serverStarted>>
cacheVars == <<clock, dirGen, dirSize, g_dir_cache, wpc, wnow, listings>>
mdVars == <<mdFile, mdPrev, mdLast, mdOn>>
configVars == <<cfgIn, cfgPc, cfgTree, cfgText, cfgBack>>
fsVars == <<fsImpl, fsDirs, fsFiles, lastMk, should_fail, lastCall>>
tplVars == <<template_path_, tplFile, tplMd, tplRes>>
lifeVars == <<sess, callbacks, late, stopped>>
lockVars == <<g_dir_cache_mu, lpc, fresh, served>>
storeVars == <<fs_, stDirs, stFiles, stLast>>

vars == <<routeVars, sessVars, poolVars, crudVars, pathVars, mainVars, cacheVars, mdVars, configVars, fsVars, tplVars, lifeVars, lockVars, storeVars>>

\* what each part leaves unchanged
exceptRoute == <<sessVars, poolVars, crudVars, pathVars, mainVars, cacheVars, mdVars, configVars, fsVars, tplVars, lifeVars, lockVars, storeVars>>
exceptSess == <<routeVars, poolVars, crudVars, pathVars, mainVars, cacheVars, mdVars, configVars, fsVars, tplVars, lifeVars, lockVars, storeVars>>
exceptPool == <<routeVars, sessVars, crudVars, pathVars, mainVars, cacheVars, mdVars, configVars, fsVars, tplVars, lifeVars, lockVars, storeVars>>
exceptCrud == <<routeVars, sessVars, poolVars, pathVars, mainVars, cacheVars, mdVars, configVars, fsVars, tplVars, lifeVars, lockVars, storeVars>>
exceptPath == <<routeVars, sessVars, poolVars, crudVars, mainVars, cacheVars, mdVars, configVars, fsVars, tplVars, lifeVars, lockVars, storeVars>>
exceptMain == <<routeVars, sessVars, poolVars, crudVars, pathVars, cacheVars, mdVars, configVars, fsVars, tplVars, lifeVars, lockVars, storeVars>>
exceptCache == <<routeVars, sessVars, poolVars, crudVars, pathVars, mainVars, mdVars, configVars, fsVars, tplVars, lifeVars, lockVars, storeVars>>
exceptMd == <<routeVars, sessVars, poolVars, crudVars, pathVars, mainVars, cacheVars, configVars, fsVars, tplVars, lifeVars, lockVars, storeVars>>
exceptConfig == <<routeVars, sessVars, poolVars, crudVars, pathVars, mainVars, cacheVars, mdVars, fsVars, tplVars, lifeVars, lockVars, storeVars>>
exceptFs == <<routeVars, sessVars, poolVars, crudVars, pathVars, mainVars, cacheVars, mdVars, configVars, tplVars, lifeVars, lockVars, storeVars>>
exceptTpl == <<routeVars, sessVars, poolVars, crudVars, pathVars, mainVars, cacheVars, mdVars, configVars, fsVars, lifeVars, lockVars, storeVars>>
exceptLife == <<routeVars, sessVars, poolVars, crudVars, pathVars, mainVars, cacheVars, mdVars, configVars, fsVars, tplVars, lockVars, storeVars>>
exceptLock == <<routeVars, sessVars, poolVars, crudVars, pathVars, mainVars, cacheVars, mdVars, configVars, fsVars, tplVars, lifeVars, storeVars>>
exceptStore == <<routeVars, sessVars, poolVars, crudVars, pathVars, mainVars, cacheVars, mdVars, configVars, fsVars, tplVars, lifeVars, lockVars>>

-----------------------------------------------------------------------------
(* Bounds of the model. *)

\* the longest config (number of top-level statements) explored
MaxLocs == 3
\* the longest request target explored by the routing specification
MaxUriLen == 3

-----------------------------------------------------------------------------
(* Strings as sequences of characters. *)

\* std::string::rfind(p, 0) == 0 : p is a textual prefix of s
StartsWith(s, p) == Len(p) <= Len(s) /\ SubSeq(s, 1, Len(p)) = p

\* all strings over alphabet A of length at most n
StringsUpTo(A, n) == UNION {[1..k -> A] : k \in 0..n}

\* s is a sequence without repeated positions mapped from 1..Len(s): permutations
Perms(s) ==
    {p \in [1..Len(s) -> 1..Len(s)] : \A i, j \in 1..Len(s) : p[i] = p[j] => i = j}


-----------------------------------------------------------------------------
(* The parts of the state a specification does not use stay at these values. *)

\* a request that has not been read: session::req_ as constructed
NoReq == [target |-> <<>>, version |-> 11, conn |-> "none", gzip |-> FALSE]

\* the absent Content-Length header
NoContentLength == -1

\* session::res_ as constructed: the null unique_ptr
NoRes == [status |-> 0, version |-> 0, conn |-> "none", body |-> 0,
          cl |-> NoContentLength, enc |-> "none"]

SessIdle ==
    /\ pc = "closed"
    /\ req_ = NoReq
    /\ res_ = NoRes
    /\ lastIo = "none"
    /\ readErr = FALSE
    /\ reqLog = <<>>
    /\ resLog = <<>>
    /\ held = {}

PoolIdle ==
    /\ ppc = <<>>
    /\ thr = <<>>
    /\ armed = 0
    /\ pkeep = <<>>
    /\ behind = <<>>
    /\ alive = FALSE
    /\ nreads = 0
    /\ started = {}
    /\ phase = "idle"
    /\ inflight = {}

NoCrudRes == [verb |-> "", status |-> 0, body |-> "", list |-> {}, id |-> <<>>]
NoPost == [type |-> "", id |-> <<>>, body |-> ""]
NoGet == [type |-> "", id |-> <<>>, posted |-> "", status |-> 0, body |-> ""]
NoAssign == [type |-> "", id |-> <<>>, names |-> {}, crashed |-> FALSE]
NoFiles == [p \in {} |-> ""]
NoPut == [status |-> 0, existed |-> FALSE, replaced |-> FALSE]

CrudIdle ==
    /\ files = NoFiles
    /\ dirs = {}
    /\ cthr = <<>>
    /\ crudRes = NoCrudRes
    /\ lastPost = NoPost
    /\ getAfter = NoGet
    /\ lastAssign = NoAssign
    /\ crudOps = 0
    /\ fsFault = "none"
    /\ lastPut = NoPut

NoPathReq == [handler |-> "", target |-> <<>>]

PathIdle ==
    /\ pathReq = NoPathReq
    /\ pathAcc = {}
    /\ pathDone = FALSE

NoMainIn == [parseOk |-> FALSE, portTok |-> <<>>, config |-> <<>>]

MainIdle ==
    /\ mainPc = "idle"
    /\ mainIn = NoMainIn
    /\ exitCode = -1
    /\ serverStarted = FALSE

NoCache == [present |-> FALSE, etag |-> <<>>, saved |-> 0]

CacheIdle ==
    /\ clock = -1
    /\ dirGen = 0
    /\ dirSize = 0
    /\ g_dir_cache = NoCache
    /\ wpc = <<>>
    /\ wnow = <<>>
    /\ listings = <<>>

NoEtag == <<>>

NoFile == [exists |-> FALSE, size |-> 0, mtime |-> 0]

NoExchange ==
    [inm |-> NoEtag, status |-> 0, etag |-> NoEtag, body |-> "none",
     file |-> NoFile]

MdIdle ==
    /\ mdFile = NoFile
    /\ mdPrev = NoExchange
    /\ mdLast = NoExchange
    /\ mdOn = FALSE

NoParse == [ok |-> FALSE, tree |-> <<>>]

ConfigIdle ==
    /\ cfgIn = <<>>
    /\ cfgPc = "idle"
    /\ cfgTree = NoParse
    /\ cfgText = <<>>
    /\ cfgBack = NoParse

NoMk == [path |-> "", existed |-> FALSE, ret |-> FALSE, before |-> {}, after |-> {}]
NoFsCall == [op |-> "none", flagged |-> FALSE, ret |-> FALSE]

FsIdle ==
    /\ fsImpl = "none"
    /\ fsDirs = << >>
    /\ fsFiles = {}
    /\ lastMk = NoMk
    /\ should_fail = {}
    /\ lastCall = NoFsCall

NoPage == [status |-> 0, body |-> "", rendered |-> FALSE, etag |-> <<>>,
           inm |-> <<>>, ims |-> "none"]

TplIdle ==
    /\ template_path_ = ""
    /\ tplFile = "missing"
    /\ tplMd = [exists |-> FALSE, size |-> 0, mtime |-> 0]
    /\ tplRes = NoPage

NoCall == [sess |-> 0, op |-> ""]

LifeIdle ==
    /\ sess = << >>
    /\ callbacks = << >>
    /\ late = FALSE
    /\ stopped = FALSE

LockIdle ==
    /\ g_dir_cache_mu = 0
    /\ lpc = << >>
    /\ fresh = FALSE
    /\ served = 0

NoHandled == [verb |-> "none", status |-> 0]

StoreIdle ==
    /\ fs_ = "none"
    /\ stDirs = << >>
    /\ stFiles = << >>
    /\ stLast = NoHandled

RouteIdle ==
    /\ config = <<>>
    /\ regState = "start"
    /\ mappings_ = <<>>
    /\ disp = [uri |-> <<>>,
               fac |-> [prefix |-> <<>>, type |-> "nullptr", bound |-> FALSE],
               handler |-> "idle", status |-> 0, crashed |-> FALSE]

-----------------------------------------------------------------------------
(* HandlerFactoryRegistry and HandlerRegistry (the routing table). *)

\* the handler types registered by REGISTER_HANDLER at program start
RegisteredTypes ==
    {"EchoHandler", "StaticHandler", "CrudHandler", "MarkdownHandler",
     "HealthRequestHandler", "SleepHandler", "NotFoundHandler"}

\* HandlerFactoryRegistry::Lookup: TRUE iff a factory is registered for type
Lookup(type) == type \in RegisteredTypes

\* A top-level statement of the config, as far as HandlerRegistry::Init reads
\* it: its first token, the number of its tokens, tokens_[1] and tokens_[2],
\* whether it has a child block and whether that block holds "root <path>;".
Stmt(kw, ntok, prefix, type, block, root) ==
    [kw |-> kw, ntok |-> ntok, prefix |-> prefix, type |-> type,
     block |-> block, root |-> root]

\* the statements configs are built from
StmtSet ==
    { Stmt("location", 3, <<"/">>, "StaticHandler", TRUE, TRUE),
      Stmt("location", 3, <<"/", "a">>, "EchoHandler", TRUE, FALSE),
      Stmt("location", 3, <<"/", "a", "b">>, "CrudHandler", TRUE, FALSE),
      Stmt("location", 3, <<"/", "b">>, "StaticHandler", TRUE, FALSE),
      Stmt("location", 3, <<"/", "a", "/">>, "EchoHandler", TRUE, FALSE),
      Stmt("location", 3, <<"b">>, "EchoHandler", TRUE, FALSE),
      Stmt("location", 3, <<"/", "a">>, "SleepHandler", TRUE, FALSE),
      Stmt("location", 3, <<"/", "b">>, "BogusHandler", TRUE, FALSE),
      Stmt("location", 3, <<"/", "b">>, "EchoHandler", FALSE, FALSE),
      Stmt("port", 2, <<>>, "", FALSE, FALSE) }

ConfigSet == UNION {[1..k -> StmtSet] : k \in 0..MaxLocs}

\* static bool ParseStaticBlock(block, root_out)
ParseStaticBlock(stmt) == stmt.block /\ stmt.root

\* a Mapping {prefix, factory}: the factory is the type it constructs and
\* whether it is a bound lambda (captures the prefix) or the archetype
Mapping(prefix, type) ==
    [prefix |-> prefix, type |-> type,
     bound |-> type \in {"StaticHandler", "EchoHandler"}]

\* a validation without the loop over mappings_ that rejects a duplicate
StmtValid_AllowsDuplicates(stmt, maps) ==
    /\ stmt.block
    /\ stmt.prefix # <<>> /\ stmt.prefix[1] = "/"
    /\ ~(Len(stmt.prefix) > 1 /\ stmt.prefix[Len(stmt.prefix)] = "/")
    /\ Lookup(stmt.type)
    /\ (stmt.type = "StaticHandler" => ParseStaticBlock(stmt))

\* the validation of one location statement against the mappings so far
StmtValid(stmt, maps) ==
    /\ stmt.block
    /\ stmt.prefix # <<>> /\ stmt.prefix[1] = "/"
    /\ ~(Len(stmt.prefix) > 1 /\ stmt.prefix[Len(stmt.prefix)] = "/")
    /\ \A i \in 1..Len(maps) : maps[i].prefix # stmt.prefix
    /\ Lookup(stmt.type)
    /\ (stmt.type = "StaticHandler" => ParseStaticBlock(stmt))

\* the for-loop of HandlerRegistry::Init from statement i on
RECURSIVE InitScan(_, _, _)
InitScan(stmts, i, maps) ==
    IF i > Len(stmts) THEN [ok |-> TRUE, maps |-> maps]
    ELSE LET stmt == stmts[i] IN
         IF stmt.ntok < 3 \/ stmt.kw # "location"
         THEN InitScan(stmts, i + 1, maps)
         ELSE IF ~StmtValid(stmt, maps)
              THEN [ok |-> FALSE, maps |-> maps]
              ELSE InitScan(stmts, i + 1,
                            Append(maps, Mapping(stmt.prefix, stmt.type)))

\* the comparator of the std::sort call
LongerPrefix(a, b) == Len(a.prefix) > Len(b.prefix)

\* std::sort is not stable: every ordering of maps that the comparator admits
SortOutcomes(maps) ==
    { [i \in 1..Len(maps) |-> maps[p[i]]] : p \in
        { q \in Perms(maps) :
            \A i, j \in 1..Len(maps) :
                i < j => ~LongerPrefix(maps[q[j]], maps[q[i]]) } }

\* the value Match returns when no mapping matches
NullFactory == [prefix |-> <<>>, type |-> "nullptr", bound |-> FALSE]

\* HandlerRegistry::not_found_factory_: the member meant as the NotFound sentinel
NotFoundFactory == [prefix |-> <<>>, type |-> "NotFoundHandler", bound |-> FALSE]

\* HandlerRegistry::Match from mapping i on
RECURSIVE MatchFrom(_, _, _)
MatchFrom(maps, uri, i) ==
    IF i > Len(maps) THEN NullFactory
    ELSE IF StartsWith(uri, maps[i].prefix) THEN maps[i]
         ELSE MatchFrom(maps, uri, i + 1)

Match(maps, uri) == MatchFrom(maps, uri, 1)

\* the status each handler type can answer with
HandlerStatus(type) ==
    CASE type = "EchoHandler" -> {200}
      [] type = "HealthRequestHandler" -> {200}
      [] type = "SleepHandler" -> {200}
      [] type = "NotFoundHandler" -> {404}
      [] type = "StaticHandler" -> {200, 404, 500}
      [] type = "CrudHandler" -> {200, 201, 204, 400, 404, 405, 415, 500}
      [] type = "MarkdownHandler" -> {200, 301, 304, 404, 413, 500}
      [] OTHER -> {}

\* (*fac)() with fac == nullptr is undefined behaviour.  What the build does
\* with it: std::function::operator() loads _M_manager through the null
\* pointer before anything else, so the process dies on the access; no
\* handler is constructed and no response is produced.
NullDerefOutcomes ==
    {[handler |-> "none", status |-> 0, crashed |-> TRUE]}

\* lines 107-113 of session::handle_read: match, construct, handle
DispatchOutcomes(maps, uri) ==
    LET fac == Match(maps, uri) IN
    IF fac = NullFactory
    THEN {[uri |-> uri, fac |-> fac, handler |-> o.handler,
           status |-> o.status, crashed |-> o.crashed] : o \in NullDerefOutcomes}
    ELSE {[uri |-> uri, fac |-> fac, handler |-> fac.type,
           status |-> st, crashed |-> FALSE] : st \in HandlerStatus(fac.type)}

NoDisp == [uri |-> <<>>, fac |-> NullFactory, handler |-> "idle",
           status |-> 0, crashed |-> FALSE]

UriAlphabet == {"/", "a", "b"}
\* the request targets explored: a request line never has an empty target
UriSet == StringsUpTo(UriAlphabet, MaxUriLen) \ {<<>>}

RouteInit ==
    /\ config \in ConfigSet
    /\ regState = "start"
    /\ mappings_ = <<>>
    /\ disp = NoDisp
    /\ SessIdle /\ PoolIdle /\ CrudIdle /\ PathIdle /\ MainIdle /\ CacheIdle /\ MdIdle /\ ConfigIdle /\ FsIdle /\ TplIdle /\ LifeIdle /\ LockIdle /\ StoreIdle

\* HandlerRegistry::Init(config), the sort included
RegistryInit ==
    /\ regState = "start"
    /\ LET r == InitScan(config, 1, <<>>) IN
       IF r.ok
       THEN /\ regState' = "ok"
            /\ mappings_' \in SortOutcomes(r.maps)
       ELSE /\ regState' = "failed"
            /\ mappings_' = r.maps
    /\ UNCHANGED <<config, disp>>
    /\ UNCHANGED exceptRoute

\* one request read by a session of the started server and dispatched
Dispatch ==
    /\ regState = "ok"
    /\ ~disp.crashed
    /\ \E uri \in UriSet : disp' \in DispatchOutcomes(mappings_, uri)
    /\ UNCHANGED <<config, regState, mappings_>>
    /\ UNCHANGED exceptRoute

RouteNext == RegistryInit \/ Dispatch

SpecRoute == RouteInit /\ [][RouteNext]_vars

-----------------------------------------------------------------------------
(* Routing claims. *)

\* the configured prefixes that are textual prefixes of uri
MatchingPrefixes(uri) ==
    {i \in 1..Len(mappings_) : StartsWith(uri, mappings_[i].prefix)}

\* the mapping with the longest configured prefix that is a prefix of uri
LongestMatch(uri) ==
    LET i == CHOOSE i \in MatchingPrefixes(uri) :
                \A j \in MatchingPrefixes(uri) :
                    Len(mappings_[j].prefix) <= Len(mappings_[i].prefix)
    IN mappings_[i]

\* C1: for every routing table built from a valid config and every target,
\* match returns the mapping with the longest configured prefix that is a
\* textual prefix of the target, or the NotFound sentinel when none is.
C1_MatchLongestOrNotFound ==
    (regState = "ok" /\ disp # NoDisp) =>
        IF MatchingPrefixes(disp.uri) # {}
        THEN disp.fac = LongestMatch(disp.uri)
        ELSE disp.fac = NotFoundFactory

\* C2: a request whose target no configured prefix matches gets a factory
\* that produces a NotFound handler and is answered 404; the dispatch never
\* receives a missing factory.
C2_NoMatchIsNotFound ==
    (regState = "ok" /\ disp # NoDisp) =>
        /\ disp.fac # NullFactory
        /\ MatchingPrefixes(disp.uri) = {} =>
              (disp.handler = "NotFoundHandler" /\ disp.status = 404)


\* C22: after a successful build every stored prefix begins with '/', no
\* prefix other than the bare "/" ends with '/', and no two mappings have
\* the same prefix.
C22_StoredPrefixesWellFormed ==
    regState = "ok" =>
        /\ \A i \in 1..Len(mappings_) :
              LET prefix == mappings_[i].prefix IN
              /\ prefix # <<>> /\ prefix[1] = "/"
              /\ prefix # <<"/">> => prefix[Len(prefix)] # "/"
        /\ \A i, j \in 1..Len(mappings_) :
              i # j => mappings_[i].prefix # mappings_[j].prefix

\* a built table that holds the bare "/" next to two longer prefixes
C22_Witness ==
    /\ regState = "ok" /\ Len(mappings_) = 3
    /\ \E i \in 1..3 : mappings_[i].prefix = <<"/">>

\* the prefix a default-constructed handler works with
DefaultPrefix(type) ==
    CASE type = "CrudHandler" -> <<"/", "a", "p", "i">>
      [] type = "MarkdownHandler" -> <<".", "/">>
      [] OTHER -> <<>>

\* the handler (*fac)() constructs: a bound factory passes the prefix of
\* its mapping (and for StaticHandler the root of the block), the archetype
\* calls the zero-argument constructor
Constructed(fac) ==
    [type |-> fac.type,
     prefix |-> IF fac.bound THEN fac.prefix ELSE DefaultPrefix(fac.type),
     params |-> IF fac.bound THEN "block" ELSE "default"]

\* the handler types whose constructor takes a prefix
PrefixedTypes == {"StaticHandler", "EchoHandler", "CrudHandler", "MarkdownHandler"}

\* C33: the handler constructed for a matched route works with the prefix
\* of that route and with the parameters of its config block.
C33_HandlerBoundToItsRoute ==
    (regState = "ok" /\ disp # NoDisp /\ disp.fac # NullFactory
        /\ disp.fac.type \in PrefixedTypes) =>
            /\ Constructed(disp.fac).prefix = disp.fac.prefix
            /\ Constructed(disp.fac).params = "block"

\* location statements of two, three and four tokens, with and without block
LocStmtSet ==
    { Stmt("location", 3, <<"/", "a">>, "EchoHandler", TRUE, FALSE),
      Stmt("location", 3, <<"/", "b">>, "EchoHandler", FALSE, FALSE),
      Stmt("location", 2, <<"/", "b">>, "", TRUE, FALSE),
      Stmt("location", 1, <<>>, "", FALSE, FALSE),
      Stmt("location", 4, <<"/", "a", "b">>, "EchoHandler", TRUE, FALSE) }

\* the registry built from configs of location statements only
LocInit ==
    /\ config \in UNION {[1..k -> LocStmtSet] : k \in 0..MaxLocs}
    /\ regState = "start"
    /\ mappings_ = <<>>
    /\ disp = NoDisp
    /\ SessIdle /\ PoolIdle /\ CrudIdle /\ PathIdle /\ MainIdle /\ CacheIdle
    /\ MdIdle /\ ConfigIdle /\ FsIdle /\ TplIdle /\ LifeIdle /\ LockIdle /\ StoreIdle

LocNext == RegistryInit \/ Dispatch

SpecLoc == LocInit /\ [][LocNext]_vars

\* C32: the build fails unless every top-level statement that begins with
\* 'location' has exactly the three tokens location, prefix, handler type
\* and a block.
C32_MalformedLocationFailsBuild ==
    regState = "ok" =>
        \A i \in 1..Len(config) :
            config[i].kw = "location" => (config[i].ntok = 3 /\ config[i].block)

\* the directives a child block of the model holds
Directives(stmt) == IF stmt.block /\ stmt.root THEN {"root"} ELSE {}

\* the directives each handler type is documented to require
RequiredDirectives(type) ==
    CASE type = "StaticHandler" -> {"root"}
      [] type = "CrudHandler" -> {"data_path"}
      [] type = "MarkdownHandler" -> {"root", "template"}
      [] OTHER -> {}

\* C23: the build fails when the child block of a location lacks a
\* directive its handler type requires.
C23_MissingDirectiveFailsBuild ==
    regState = "ok" =>
        \A i \in 1..Len(config) :
            (config[i].kw = "location" /\ config[i].ntok >= 3) =>
                RequiredDirectives(config[i].type) \subseteq Directives(config[i])


-----------------------------------------------------------------------------
(* One session: read, dispatch, post-process, write, keep-alive. *)

\* the most requests read on the connection
MaxReqs == 2

\* the body size above which maybe_compress_response compresses
GzipThreshold == 1024

\* boost::beast::http::message::keep_alive(): HTTP/1.1 keeps the connection
\* unless Connection: close; HTTP/1.0 keeps it only on Connection: keep-alive
KeepAlive(m) ==
    IF m.version >= 11 THEN m.conn # "close" ELSE m.conn = "keep-alive"

\* a response after prepare_payload(): Content-Length is the body size
Prepared(status, version, body) ==
    [status |-> status, version |-> version, conn |-> "none", body |-> body,
     cl |-> body, enc |-> "none"]

\* a response returned without prepare_payload(): no Content-Length
Unprepared(status, version, body) ==
    [status |-> status, version |-> version, conn |-> "none", body |-> body,
     cl |-> NoContentLength, enc |-> "none"]

\* the body sizes of file contents, listings and echoed requests: empty,
\* short, exactly at the gzip threshold, and above it
BodySizes == {0, 13, GzipThreshold, GzipThreshold + 1}

\* the responses handle_request of each handler type can return for request r
HandlerResponses(type, r) ==
    CASE type = "EchoHandler" ->
            {Prepared(200, r.version, b) : b \in BodySizes \ {0}}
      [] type = "HealthRequestHandler" -> {Prepared(200, r.version, 2)}
      [] type = "NotFoundHandler" -> {Prepared(404, r.version, 13)}
      [] type = "SleepHandler" -> {Prepared(200, 11, 5)}
      [] type = "StaticHandler" ->
            {Prepared(200, 11, b) : b \in BodySizes}
            \cup {Prepared(404, 11, 13), Prepared(500, 11, 25)}
      [] type = "CrudHandler" ->
            {Prepared(200, r.version, b) : b \in BodySizes \ {0}}
            \cup {Prepared(201, r.version, 8), Prepared(201, r.version, 0),
                  Prepared(204, r.version, 0), Prepared(400, r.version, 25),
                  Prepared(404, r.version, 29), Prepared(405, r.version, 31),
                  Prepared(415, r.version, 49), Prepared(500, r.version, 34)}
      [] type = "MarkdownHandler" ->
            {Prepared(200, r.version, b) : b \in BodySizes}
            \cup {Prepared(301, r.version, 0), Unprepared(304, r.version, 0),
                  Prepared(404, r.version, 13), Prepared(413, r.version, 46),
                  Prepared(500, r.version, 45)}
      [] OTHER -> {}

\* the sizes compress_gzip can produce for n input bytes: a gzip stream is at
\* least its 10-byte header, one deflate block and the 8-byte trailer; input
\* that does not compress is stored with 5 bytes of block framing
CompressedSizes(n) == {29, n \div 2, n + 23}

\* a compression that leaves the Content-Length of the uncompressed body
MaybeCompress_StaleLength(r, res) ==
    IF r.gzip /\ res.body > GzipThreshold /\ res.enc = "none"
    THEN {[res EXCEPT !.body = z, !.enc = "gzip"] :
              z \in CompressedSizes(res.body)}
         \cup {res}
    ELSE {res}

\* session::maybe_compress_response on res for request r (res is not null)
MaybeCompress(r, res) ==
    IF r.gzip /\ res.body > GzipThreshold /\ res.enc = "none"
    THEN {[res EXCEPT !.body = z, !.enc = "gzip", !.cl = z] :
              z \in CompressedSizes(res.body)}
         \cup {res}                       \* compress_gzip returned false
    ELSE {res}

\* a 400 response that does not ask for the connection to be closed
BadRequestResponse_KeepsAlive ==
    [status |-> 400, version |-> 11, conn |-> "none", body |-> 15,
     cl |-> 15, enc |-> "none"]

\* the response session::handle_read builds on a read error
BadRequestResponse ==
    [status |-> 400, version |-> 11, conn |-> "close", body |-> 15,
     cl |-> 15, enc |-> "none"]

\* the routing table of the server the session belongs to
SessConfig ==
    << Stmt("location", 3, <<"/", "e">>, "EchoHandler", TRUE, FALSE),
       Stmt("location", 3, <<"/", "s">>, "SleepHandler", TRUE, FALSE),
       Stmt("location", 3, <<"/", "m">>, "MarkdownHandler", TRUE, FALSE),
       Stmt("location", 3, <<"/", "f">>, "StaticHandler", TRUE, TRUE),
       Stmt("location", 3, <<"/", "c">>, "CrudHandler", TRUE, FALSE),
       Stmt("location", 3, <<"/", "h">>, "HealthRequestHandler", TRUE, FALSE),
       Stmt("location", 3, <<"/", "n">>, "NotFoundHandler", TRUE, FALSE) >>

SessMappings == CHOOSE m \in SortOutcomes(InitScan(SessConfig, 1, <<>>).maps) : TRUE

\* the requests a client can send
SessTargets ==
    {<<"/", "e">>, <<"/", "s">>, <<"/", "m">>, <<"/", "f">>, <<"/", "c">>,
     <<"/", "h">>, <<"/", "n">>, <<"/", "x">>}

RequestSet ==
    [target : SessTargets, version : {10, 11},
     conn : {"none", "close", "keep-alive"}, gzip : BOOLEAN]

\* a session that starts the next read before the response is written
PcAfterDispatch_Restart == "reading"

\* what the session does once the response is handed to async_write
PcAfterDispatch == "writing"

\* the keep-alive decision of session::handle_write
KeepFlag(request, response) ==
    IF response # NoRes THEN KeepAlive(response) ELSE KeepAlive(request)

\* the members of a session: socket_, buffer_, req_ (with the session
\* object itself, allocated by server::start_accept)
Members == {"session", "socket_", "buffer_", "req_"}

\* res_ = std::make_unique<Response>(...): the response is owned too
WithResponse(h) == h \cup {"res_"}

\* a destructor that does not free the response
DeleteThis_LeakResponse(h) == h \cap {"res_"}

\* delete this: ~session() destroys every member, res_ through unique_ptr
DeleteThis(h) == {}

\* the state after session::start(): an async_read is outstanding
SessInit ==
    /\ pc = "reading"
    /\ req_ = NoReq
    /\ res_ = NoRes
    /\ lastIo = "none"
    /\ readErr = FALSE
    /\ reqLog = <<>>
    /\ resLog = <<>>
    /\ held = Members

\* handle_read with error == end_of_stream: delete this
ReadEof ==
    /\ pc = "reading"
    /\ pc' = "closed"
    /\ lastIo' = "eof"
    /\ held' = DeleteThis(held)
    /\ UNCHANGED <<req_, res_, readErr, reqLog, resLog>>
    /\ UNCHANGED exceptSess

\* handle_read with any other error: build the 400, post-process, write
ReadError ==
    /\ pc = "reading"
    /\ res_' \in MaybeCompress(req_, BadRequestResponse)
    /\ pc' = "writing"
    /\ lastIo' = "error"
    /\ readErr' = TRUE
    /\ reqLog' = Append(reqLog, Len(reqLog) + 1)
    /\ held' = WithResponse(held)
    /\ UNCHANGED <<req_, resLog>>
    /\ UNCHANGED exceptSess

\* handle_read without error: match, construct the handler, handle the
\* request, post-process, start the write
ReadRequest ==
    /\ pc = "reading"
    /\ Len(reqLog) < MaxReqs
    /\ \E r \in RequestSet :
         LET fac == Match(SessMappings, r.target) IN
         /\ req_' = r
         /\ lastIo' = "ok"
         /\ reqLog' = Append(reqLog, Len(reqLog) + 1)
         /\ IF fac = NullFactory
            THEN /\ pc' = "crashed"
                 /\ UNCHANGED <<res_, held>>
            ELSE /\ \E h \in HandlerResponses(fac.type, r) :
                        res_' \in MaybeCompress(r, h)
                 /\ pc' = PcAfterDispatch
                 /\ held' = WithResponse(held)
    /\ UNCHANGED <<readErr, resLog>>
    /\ UNCHANGED exceptSess

\* handle_write: on error delete this; else restart or close by keep-alive
WriteDone ==
    /\ pc = "writing"
    /\ \E ok \in BOOLEAN :
         /\ lastIo' = IF ok THEN "ok" ELSE "error"
         /\ IF ~ok
            THEN /\ pc' = "closed"
                 /\ held' = DeleteThis(held)
                 /\ UNCHANGED resLog
            ELSE /\ resLog' = Append(resLog, Len(resLog) + 1)
                 /\ pc' = IF KeepFlag(req_, res_) THEN "reading" ELSE "closed"
                 /\ held' = IF KeepFlag(req_, res_) THEN held
                            ELSE DeleteThis(held)
    /\ UNCHANGED <<req_, res_, readErr, reqLog>>
    /\ UNCHANGED exceptSess

Init == SessInit /\ RouteIdle /\ PoolIdle /\ CrudIdle /\ PathIdle /\ MainIdle /\ CacheIdle /\ MdIdle /\ ConfigIdle /\ FsIdle /\ TplIdle /\ LifeIdle /\ LockIdle /\ StoreIdle

Next == ReadEof \/ ReadError \/ ReadRequest \/ WriteDone

Spec == Init /\ [][Next]_vars


-----------------------------------------------------------------------------
(* Session claims. *)

\* C3: after a response has been written successfully, the session goes back
\* to reading if and only if both the request and the response permit
\* keep-alive; otherwise it closes the connection.
C3_RestartIffBothPermit ==
    [][(pc = "writing" /\ pc' # "writing" /\ lastIo' = "ok") =>
           (pc' = "reading" <=> (KeepAlive(req_) /\ KeepAlive(res_)))]_vars

\* C4: after a read error other than end-of-stream the session is either
\* writing the one 400 response marked Connection: close or closed; it never
\* returns to reading and writes no second response.
C4_ReadErrorAnswers400AndCloses ==
    readErr =>
        /\ pc \in {"writing", "closed"}
        /\ pc = "writing" => res_ = BadRequestResponse
        /\ res_.status = 400 /\ res_.conn = "close"
        /\ Len(reqLog) - Len(resLog) \in {0, 1}
        /\ (Len(resLog) = Len(reqLog)) => pc = "closed"

\* a read failed, the 400 was written completely and the session closed
C4_Witness ==
    readErr /\ pc = "closed" /\ lastIo = "ok" /\ Len(resLog) = Len(reqLog)

\* C5: responses are written in the order their requests were read and never
\* overlap: at most one request is unanswered, and while the session reads
\* the next request every earlier response has been written completely.
C5_SerialPerConnection ==
    /\ Len(resLog) <= Len(reqLog)
    /\ resLog = SubSeq(reqLog, 1, Len(resLog))
    /\ Len(reqLog) - Len(resLog) <= 1
    /\ pc = "reading" => resLog = reqLog

\* the session reads its second request after the first response is written
C5_Witness ==
    pc = "writing" /\ Len(reqLog) = 2 /\ Len(resLog) = 1 /\ ~readErr

\* C10 as claimed: every response a handler produced has, after
\* post-processing, a Content-Length equal to the length of the body sent.
C10_ContentLengthIsBodyLength ==
    (pc = "writing" /\ res_ # NoRes) => res_.cl = res_.body

\* C10 as it holds: a response that carries Content-Length carries the length
\* of the body sent, also after gzip; the only responses without the header
\* are the Markdown handler's 304 answers, whose body is empty.
C10_ContentLengthWhenPresent ==
    (pc = "writing" /\ res_ # NoRes) =>
        /\ res_.cl # NoContentLength => res_.cl = res_.body
        /\ res_.cl = NoContentLength => (res_.status = 304 /\ res_.body = 0)

\* a compressed response is being written
C10_Witness ==
    pc = "writing" /\ res_.enc = "gzip" /\ res_.cl = res_.body
    /\ res_.body # GzipThreshold + 1

\* C14: each step by which a session ends (end of stream on the read, a
\* failed write, the completed write of the 400, the completed write of a
\* response that does not keep the connection alive) releases the session
\* with its socket, buffers, request and response; a session that has not
\* ended still owns its members.
C14_EveryExitReleases ==
    [][/\ (pc = "reading" /\ lastIo' = "eof") => held' = {}
       /\ (pc = "writing" /\ pc' # "writing" /\ lastIo' = "error") => held' = {}
       /\ (pc = "writing" /\ readErr /\ lastIo' = "ok") => held' = {}
       /\ (pc = "writing" /\ lastIo' = "ok" /\ ~KeepFlag(req_, res_))
             => held' = {}
       /\ pc' = "closed" => held' = {}
       /\ pc' \in {"reading", "writing"} => Members \subseteq held']_vars

\* a session ended by a failed write of a handler's response
C14_Witness ==
    pc = "closed" /\ lastIo = "error" /\ ~readErr /\ res_ # NoRes /\ held = {}


\* C34: the response being written is gzip-compressed exactly when the
\* request it answers accepts gzip and the body the handler produced is
\* longer than 1024 bytes; a body that is still longer than 1024 bytes and
\* not encoded was therefore produced for a request that does not accept gzip.
C34_GzipExactlyWhenEligible ==
    (pc = "writing" /\ ~readErr /\ res_ # NoRes) =>
        /\ res_.enc = "gzip" => req_.gzip
        /\ (req_.gzip /\ res_.body > GzipThreshold) => res_.enc = "gzip"

\* C26: for every request a session reads successfully the write of exactly
\* one response is started, and the session neither reads again nor closes
\* before that write has ended; no second response is written for it.
C26_OneResponsePerRequest ==
    [][/\ (pc = "reading" /\ lastIo' = "ok") =>
             (pc' = "writing" /\ res_' # NoRes /\ Len(reqLog') = Len(resLog) + 1)
       /\ pc = "writing" =>
             (pc' \in {"reading", "closed"} /\ Len(resLog') <= Len(reqLog))]_vars

-----------------------------------------------------------------------------
(* The server: one acceptor, the sessions, and the threads of main() that  *)
(* run io_service.  A completion handler runs on a thread that is not      *)
(* inside another handler; sleep_handler::handle_request keeps its thread  *)
(* for the whole delay.                                                    *)

\* the connections that arrive
NConns == 3
\* the requests read by all sessions together
MaxPoolReqs == 4

\* n_threads = std::max(2u, hardware_concurrency()): the smallest pool
MinThreads == 2

\* a pool without workers: only the main thread runs io_service
PoolThreads_MainOnly == 1..1

\* the threads running io_service.run(): the workers and the main thread
PoolThreads == 1..MinThreads

Conns == 1..NConns

\* the connections whose request is inside sleep_for
Sleeping == {c \in Conns : ppc[c] = "sleeping"}

\* a thread that can run the next completion handler
IdleThreads == {t \in PoolThreads : thr[t] = 0}

\* what a read completion can carry: a request for the Sleep handler, for
\* another handler, for no configured prefix, an error, or end of stream
ReadKinds == {"sleep", "other", "unrouted", "error", "eof"}

\* the responses a handler can hand to async_write: one the socket takes
\* whole at once ("writing": only the completion handler is left to run), or
\* one of which a part stays behind for the reactor ("pending")
WriteStates == {"writing", "pending"}

\* handlers are dispatched until io_service.stop()
Serving == alive /\ phase = "running"

\* server::server: the first session is created and its accept is armed
PoolInit ==
    /\ ppc = [c \in Conns |-> "new"]
    /\ thr = [t \in PoolThreads |-> 0]
    /\ armed = 1
    /\ pkeep = [c \in Conns |-> FALSE]
    /\ behind = [c \in Conns |-> 0]
    /\ alive = TRUE
    /\ nreads = 0
    /\ started = {}
    /\ phase = "running"
    /\ inflight = {}
    /\ RouteIdle /\ SessIdle /\ CrudIdle /\ PathIdle /\ MainIdle /\ CacheIdle /\ MdIdle /\ ConfigIdle /\ FsIdle /\ TplIdle /\ LifeIdle /\ LockIdle /\ StoreIdle

\* a server that arms the next accept only after a successful one
NextArmed_OnlyOnSuccess(ok) == IF ok THEN armed + 1 ELSE armed

\* server::handle_accept ends with start_accept() on both branches
NextArmed(ok) == armed + 1

\* server::handle_accept: start the session or delete it, then start_accept
HandleAccept ==
    /\ Serving /\ armed <= NConns
    /\ IdleThreads # {}
    /\ \E ok \in BOOLEAN :
         /\ ppc' = [ppc EXCEPT ![armed] = IF ok THEN "reading" ELSE "closed"]
         /\ started' = IF ok THEN started \cup {armed} ELSE started
         /\ armed' = NextArmed(ok)
    /\ UNCHANGED <<thr, pkeep, behind, alive, nreads, phase, inflight>>
    /\ UNCHANGED exceptPool

\* session::handle_read on some thread t
PoolRead ==
    /\ Serving
    /\ \E c \in Conns, t \in IdleThreads, kind \in ReadKinds :
         /\ ppc[c] = "reading"
         /\ kind \in {"sleep", "other", "unrouted"} => nreads < MaxPoolReqs
         /\ nreads' = IF kind \in {"sleep", "other", "unrouted"}
                      THEN nreads + 1 ELSE nreads
         /\ CASE kind = "eof" ->
                   /\ ppc' = [ppc EXCEPT ![c] = "closed"]
                   /\ UNCHANGED <<thr, pkeep, behind, alive>>
              [] kind = "error" ->
                   /\ ppc' = [ppc EXCEPT ![c] = "writing"]
                   /\ pkeep' = [pkeep EXCEPT ![c] = FALSE]
                   /\ UNCHANGED <<thr, behind, alive>>
              [] kind = "unrouted" ->
                   /\ alive' = FALSE
                   /\ UNCHANGED <<ppc, thr, pkeep, behind>>
              [] kind = "sleep" ->
                   /\ ppc' = [ppc EXCEPT ![c] = "sleeping"]
                   /\ thr' = [thr EXCEPT ![t] = c]
                   /\ behind' = [behind EXCEPT ![c] = 0]
                   /\ UNCHANGED <<pkeep, alive>>
              [] kind = "other" ->
                   /\ \E w \in WriteStates : ppc' = [ppc EXCEPT ![c] = w]
                   /\ \E k \in BOOLEAN : pkeep' = [pkeep EXCEPT ![c] = k]
                   /\ behind' = [behind EXCEPT
                                   ![c] = IF Sleeping # {} THEN 1 ELSE 0]
                   /\ UNCHANGED <<thr, alive>>
    /\ UNCHANGED <<armed, started, phase, inflight>>
    /\ UNCHANGED exceptPool

\* sleep_for returns: the response "Slept" is built and handed to
\* async_write; a handler that is running is not cut short by stop()
SleepDone ==
    /\ alive /\ phase # "exited"
    /\ \E c \in Sleeping :
         /\ ppc' = [ppc EXCEPT ![c] = "writing"]
         /\ thr' = [t \in PoolThreads |-> IF thr[t] = c THEN 0 ELSE thr[t]]
         /\ pkeep' = [pkeep EXCEPT ![c] = TRUE]
         /\ behind' = [d \in Conns |->
                          IF behind[d] = 1 /\ Sleeping = {c} THEN 0 ELSE behind[d]]
    /\ UNCHANGED <<armed, alive, nreads, started, phase, inflight>>
    /\ UNCHANGED exceptPool

\* the reactor, inside io_service.run(), sends the rest of a response
Drain ==
    /\ Serving
    /\ IdleThreads # {}
    /\ \E c \in Conns :
         /\ ppc[c] = "pending"
         /\ ppc' = [ppc EXCEPT ![c] = "writing"]
    /\ UNCHANGED <<thr, armed, pkeep, behind, alive, nreads, started, phase, inflight>>
    /\ UNCHANGED exceptPool

\* session::handle_write on some thread; a write can fail at any point
PoolWrite ==
    /\ Serving
    /\ IdleThreads # {}
    /\ \E c \in Conns, ok \in BOOLEAN :
         /\ ppc[c] \in WriteStates
         /\ ok => ppc[c] = "writing"
         /\ ppc' = [ppc EXCEPT ![c] = IF ok /\ pkeep[c] THEN "reading" ELSE "closed"]
         /\ behind' = [behind EXCEPT
                         ![c] = IF ok /\ behind[c] = 1 /\ Sleeping # {} THEN 2
                                ELSE IF behind[c] = 2 THEN 2 ELSE 0]
    /\ UNCHANGED <<thr, armed, pkeep, alive, nreads, started, phase, inflight>>
    /\ UNCHANGED exceptPool

\* the handler of shutdown_signals.async_wait: io_service.stop()
Signal ==
    /\ Serving
    /\ IdleThreads # {}
    /\ phase' = "stopped"
    /\ inflight' = {c \in Conns : ppc[c] \in {"sleeping", "pending", "writing"}}
    /\ UNCHANGED <<ppc, thr, armed, pkeep, behind, alive, nreads, started>>
    /\ UNCHANGED exceptPool

\* every io_service.run() has returned, the workers are joined, return 0
Exit ==
    /\ alive /\ phase = "stopped"
    /\ \A t \in PoolThreads : thr[t] = 0
    /\ phase' = "exited"
    /\ UNCHANGED <<ppc, thr, armed, pkeep, behind, alive, nreads, started, inflight>>
    /\ UNCHANGED exceptPool

PoolNext ==
    HandleAccept \/ PoolRead \/ SleepDone \/ Drain \/ PoolWrite \/ Signal \/ Exit

SpecPool == PoolInit /\ [][PoolNext]_vars

\* C6: while one request is blocked inside the Sleep handler, a thread is
\* left to run the completion handlers of the other connections, so a
\* request on another connection is read, dispatched and answered without
\* waiting for the sleep to end.
C6_OneSleeperLeavesAThread ==
    (alive /\ Cardinality(Sleeping) = 1) => IdleThreads # {}

\* C12: a session whose accept failed is deleted without being started, it
\* never reads or writes, and the next accept has been armed.
C12_AcceptErrorDropsAndRearms ==
    \A c \in Conns :
        /\ c \notin started => ppc[c] \in {"new", "closed"}
        /\ (ppc[c] = "closed" /\ c \notin started) => armed > c
        /\ ppc[c] = "new" => armed <= c

\* an accept failed and a later connection was accepted and started
C12_Witness ==
    \E c, d \in Conns :
        c < d /\ ppc[c] = "closed" /\ c \notin started /\ d \in started

\* C13: once the process has exited after SIGINT or SIGTERM, no session that
\* was in flight at the signal is left with a part of its response unsent.
C13_InflightCompleteBeforeExit ==
    phase = "exited" => \A c \in inflight : ppc[c] # "pending"

\* a request was read and its response written while another one slept
C6_Witness ==
    \E c \in Conns : behind[c] = 2 /\ Sleeping # {} /\ c \notin Sleeping

-----------------------------------------------------------------------------
(* CrudRequestHandler over RealFileSystem.  A handler object is built per  *)
(* request and every object works on the same directory tree, so requests  *)
(* of different connections interleave at the filesystem calls.            *)

\* the requests handled by all threads together
MaxCrudOps == 3

\* the largest value of int, the type generate_id computes in
IntMax == 2147483647
IntMin == -IntMax - 1

Digits == <<"0", "1", "2", "3", "4", "5", "6", "7", "8", "9">>
IsDigit(c) == \E d \in 0..9 : Digits[d + 1] = c
DigitVal(c) == CHOOSE d \in 0..9 : Digits[d + 1] = c

\* strtol's digit loop, accumulating the negated magnitude from position i;
\* the result 1 stands for a magnitude below the range of int
RECURSIVE NegAcc(_, _, _)
NegAcc(str, i, acc) ==
    IF i > Len(str) \/ ~IsDigit(str[i]) THEN acc
    ELSE LET d == DigitVal(str[i]) IN
         IF acc < -(IntMax \div 10) \/ (acc = -(IntMax \div 10) /\ d > (IntMax % 10) + 1)
         THEN 1
         ELSE NegAcc(str, i + 1, acc * 10 - d)

\* std::stoi(str): ok is FALSE where it throws invalid_argument or
\* out_of_range; characters after the leading integer are ignored
Stoi(str) ==
    LET neg   == Len(str) > 0 /\ str[1] = "-"
        start == IF Len(str) > 0 /\ str[1] \in {"-", "+"} THEN 2 ELSE 1
    IN  IF start > Len(str) \/ ~IsDigit(str[start])
        THEN [ok |-> FALSE, val |-> 0]
        ELSE LET acc == NegAcc(str, start, 0) IN
             IF acc = 1 \/ (~neg /\ acc = IntMin)
             THEN [ok |-> FALSE, val |-> 0]
             ELSE [ok |-> TRUE, val |-> IF neg THEN acc ELSE -acc]

RECURSIVE PosDigits(_)
PosDigits(n) ==
    IF n < 10 THEN <<Digits[n + 1]>>
    ELSE Append(PosDigits(n \div 10), Digits[(n % 10) + 1])

RECURSIVE NegDigits(_)
NegDigits(n) ==
    IF n > -10 THEN <<Digits[1 - n]>>
    ELSE LET k == (10 - (n % 10)) % 10 IN
         Append(NegDigits((n + k) \div 10), Digits[k + 1])

\* std::to_string(int)
to_string(n) == IF n >= 0 THEN PosDigits(n) ELSE <<"-">> \o NegDigits(n)

IntMaxStr == to_string(IntMax)

\* the entity types and the ids a client names in a path
Types == {"Shoes", "Hats"}
NoId == <<>>
IdSet == {<<"2">>, <<"-", "5">>, <<"7", "x">>, <<"x">>, IntMaxStr}

\* request bodies: two JSON documents, a malformed one and the empty body
Bodies == {"{}", "[]", "{", ""}
is_valid_json(b) == b \in {"{}", "[]"}
ContentTypes == {"", "application/json", "text/plain"}

CrudThreads == 1..MinThreads

\* RealFileSystem::list_directory(data_path/type)
list_directory(type) == {p[2] : p \in {q \in DOMAIN files : q[1] = type}}

\* RealFileSystem::file_exists(data_path/type/id)
file_exists(type, id) == <<type, id>> \in DOMAIN files

\* the tree after RealFileSystem::write_file(data_path/type/id, b)
write_file(type, id, b) ==
    [p \in DOMAIN files \cup {<<type, id>>} |->
        IF p = <<type, id>> THEN b ELSE files[p]]

\* the tree after RealFileSystem::delete_file(data_path/type/id)
delete_file(type, id) == [p \in DOMAIN files \ {<<type, id>>} |-> files[p]]

\* the ids generate_id collects from a listing
PositiveIds(names) ==
    {Stoi(n).val : n \in {m \in names : Stoi(m).ok /\ Stoi(m).val > 0}}

SetMax(S) == CHOOSE x \in S : \A y \in S : y <= x

\* max_id + 1 at INT_MAX is a signed overflow: the sum wraps, or the
\* process is stopped where the build traps on overflow
OverflowOutcomes ==
    {[id |-> to_string(IntMin), crashed |-> FALSE],
     [id |-> <<>>, crashed |-> TRUE]}

\* CrudRequestHandler::generate_id, given whether the directory exists
generate_id(type, exists) ==
    IF ~exists THEN {[id |-> <<"1">>, crashed |-> FALSE]}
    ELSE LET ids == PositiveIds(list_directory(type)) IN
         IF ids = {} THEN {[id |-> <<"1">>, crashed |-> FALSE]}
         ELSE IF SetMax(ids) = IntMax THEN OverflowOutcomes
         ELSE {[id |-> to_string(SetMax(ids) + 1), crashed |-> FALSE]}

Idle ==
    [step |-> "idle", type |-> "", body |-> "", id |-> <<>>, existed |-> FALSE,
     onId |-> FALSE]

\* what a call of RealFileSystem can do: succeed, return its failure value
\* (false, nullopt), or throw std::filesystem::filesystem_error, which no
\* caller up to io_service.run() catches
CreateOutcomes == {"ok", "throws"}
ListOutcomes == {"ok", "throws"}
WriteOutcomes == {"ok", "false"}
ReadOutcomes == {"ok", "false"}
DeleteOutcomes == {"ok", "false", "throws"}

\* no handler ran into a trap
Running == \A t \in CrudThreads : cthr[t].step # "crashed"

\* the validation handle_post and handle_put do before touching the tree:
\* the status of the rejection, or 0
Rejection(b, ct) ==
    IF b = "" THEN 400
    ELSE IF ct # "" /\ ct # "application/json" THEN 415
    ELSE IF ~is_valid_json(b) THEN 400
    ELSE 0

Response(verb, status, b, list, id) ==
    [verb |-> verb, status |-> status, body |-> b, list |-> list, id |-> id]

\* the ids a client can ask for: those it chose and those it was told
KnownIds == IdSet \cup {p[2] : p \in DOMAIN files}

\* the constructor has created data_path; no entity is stored
CrudInit ==
    /\ files = NoFiles
    /\ dirs = {}
    /\ cthr = [t \in CrudThreads |-> Idle]
    /\ crudRes = NoCrudRes
    /\ lastPost = NoPost
    /\ getAfter = NoGet
    /\ lastAssign = NoAssign
    /\ crudOps = 0
    /\ fsFault = "none"
    /\ lastPut = NoPut
    /\ RouteIdle /\ SessIdle /\ PoolIdle /\ PathIdle /\ MainIdle /\ CacheIdle /\ MdIdle /\ ConfigIdle /\ FsIdle /\ TplIdle /\ LifeIdle /\ LockIdle /\ StoreIdle

\* the thread that takes the next request: the threads are alike, so the
\* first one that is not inside a handler
FreeThread ==
    LET free == {t \in CrudThreads : cthr[t].step = "idle"} IN
    IF free = {} THEN {} ELSE {CHOOSE t \in free : \A u \in free : t <= u}

\* an exception leaves the handler: no response, the process terminates
Thrown(t, verb, call) ==
    /\ cthr' = [cthr EXCEPT ![t].step = "crashed"]
    /\ crudRes' = Response(verb, 0, "", {}, <<>>)
    /\ fsFault' = call

\* handle_post up to generate_id; an id in the path is not looked at
PostBegin ==
    /\ Running /\ crudOps < MaxCrudOps
    /\ \E t \in FreeThread, type \in Types, id \in IdSet \cup {NoId},
          b \in Bodies, ct \in ContentTypes,
          co \in CreateOutcomes, lo \in ListOutcomes :
         /\ cthr[t].step = "idle"
         /\ crudOps' = crudOps + 1
         /\ lastPost' = NoPost /\ getAfter' = NoGet
         /\ IF Rejection(b, ct) # 0
            THEN /\ crudRes' = Response("POST", Rejection(b, ct), "", {}, <<>>)
                 /\ fsFault' = "none"
                 /\ UNCHANGED <<files, dirs, cthr, lastAssign>>
            ELSE IF co = "throws"
            THEN /\ Thrown(t, "POST", "create_directory")
                 /\ UNCHANGED <<files, dirs, lastAssign>>
            ELSE IF lo = "throws"
            THEN /\ Thrown(t, "POST", "list_directory")
                 /\ dirs' = dirs \cup {type}
                 /\ UNCHANGED <<files, lastAssign>>
            ELSE /\ dirs' = dirs \cup {type}
                 /\ \E g \in generate_id(type, TRUE) :
                      /\ cthr' = [cthr EXCEPT ![t] =
                                    [step |-> IF g.crashed THEN "crashed" ELSE "gen",
                                     type |-> type, body |-> b, id |-> g.id,
                                     existed |-> FALSE, onId |-> id # NoId]]
                      /\ lastAssign' = [type |-> type, id |-> g.id,
                                        names |-> list_directory(type),
                                        crashed |-> g.crashed]
                 /\ UNCHANGED <<files, crudRes, fsFault>>
    /\ UNCHANGED lastPut
    /\ UNCHANGED exceptCrud

\* handle_post: write_file(entity_path, req.body()), 500 when it fails
PostWrite ==
    /\ Running
    /\ \E t \in CrudThreads, wo \in WriteOutcomes :
         /\ cthr[t].step = "gen"
         /\ IF wo = "ok"
            THEN /\ files' = write_file(cthr[t].type, cthr[t].id, cthr[t].body)
                 /\ cthr' = [cthr EXCEPT ![t].step = "written"]
                 /\ UNCHANGED <<crudRes, fsFault>>
            ELSE /\ crudRes' = Response("POST", 500, "", {}, <<>>)
                 /\ fsFault' = "write_file"
                 /\ cthr' = [cthr EXCEPT ![t] = Idle]
                 /\ UNCHANGED files
    /\ lastPost' = NoPost /\ getAfter' = NoGet
    /\ UNCHANGED <<dirs, lastAssign, crudOps, lastPut>>
    /\ UNCHANGED exceptCrud

\* handle_post: the 201 response with Location and {"id": n}
PostReturn ==
    /\ Running
    /\ \E t \in CrudThreads :
         /\ cthr[t].step = "written"
         /\ crudRes' = Response("POST", 201, "id", {}, cthr[t].id)
         /\ lastPost' = [type |-> cthr[t].type, id |-> cthr[t].id,
                         body |-> cthr[t].body]
         /\ cthr' = [cthr EXCEPT ![t] = Idle]
    /\ getAfter' = NoGet
    /\ fsFault' = "none"
    /\ UNCHANGED <<files, dirs, lastAssign, crudOps, lastPut>>
    /\ UNCHANGED exceptCrud

\* handle_get: one entity, or the list of the ids of a type
Get ==
    /\ Running /\ crudOps < MaxCrudOps
    /\ \E t \in FreeThread, type \in Types, id \in KnownIds \cup {NoId},
          ro \in ReadOutcomes, lo \in ListOutcomes :
         /\ cthr[t].step = "idle"
         /\ IF id # NoId /\ file_exists(type, id) /\ ro = "false"
            THEN /\ crudRes' = Response("GET", 500, "", {}, id)
                 /\ fsFault' = "read_file"
                 /\ UNCHANGED cthr
            ELSE IF id = NoId /\ type \in dirs /\ lo = "throws"
            THEN Thrown(t, "GET", "list_directory")
            ELSE /\ crudRes' =
                      IF id # NoId
                      THEN IF file_exists(type, id)
                           THEN Response("GET", 200, files[<<type, id>>], {}, id)
                           ELSE Response("GET", 404, "", {}, id)
                      ELSE Response("GET", 200, "", list_directory(type), NoId)
                 /\ fsFault' = "none"
                 /\ UNCHANGED cthr
         /\ getAfter' =
              IF /\ lastPost # NoPost /\ type = lastPost.type /\ id = lastPost.id
                 /\ fsFault' = "none"
              THEN [type |-> type, id |-> id, posted |-> lastPost.body,
                    status |-> crudRes'.status, body |-> crudRes'.body]
              ELSE NoGet
    /\ lastPost' = NoPost
    /\ crudOps' = crudOps + 1
    /\ UNCHANGED <<files, dirs, lastAssign, lastPut>>
    /\ UNCHANGED exceptCrud

\* handle_request and handle_put up to `existed = file_exists(entity_path)`
PutBegin ==
    /\ Running /\ crudOps < MaxCrudOps
    /\ \E t \in FreeThread, type \in Types, id \in KnownIds \cup {NoId},
          b \in Bodies, ct \in ContentTypes, co \in CreateOutcomes :
         /\ cthr[t].step = "idle"
         /\ IF id = NoId \/ Rejection(b, ct) # 0
            THEN /\ crudRes' = Response("PUT", IF id = NoId THEN 400 ELSE Rejection(b, ct),
                                        "", {}, id)
                 /\ fsFault' = "none"
                 /\ UNCHANGED <<dirs, cthr>>
            ELSE IF co = "throws"
            THEN /\ Thrown(t, "PUT", "create_directory")
                 /\ UNCHANGED dirs
            ELSE /\ dirs' = dirs \cup {type}
                 /\ cthr' = [cthr EXCEPT ![t] =
                               [step |-> "put", type |-> type, body |-> b, id |-> id,
                                existed |-> file_exists(type, id), onId |-> TRUE]]
                 /\ UNCHANGED <<crudRes, fsFault>>
    /\ lastPost' = NoPost /\ getAfter' = NoGet
    /\ crudOps' = crudOps + 1
    /\ UNCHANGED <<files, lastAssign, lastPut>>
    /\ UNCHANGED exceptCrud

\* handle_put: write_file, then 500, 204 (existed) or 201 with Location
PutWrite ==
    /\ Running
    /\ \E t \in CrudThreads, wo \in WriteOutcomes :
         /\ cthr[t].step = "put"
         /\ cthr' = [cthr EXCEPT ![t] = Idle]
         /\ IF wo = "ok"
            THEN /\ files' = write_file(cthr[t].type, cthr[t].id, cthr[t].body)
                 /\ crudRes' = Response("PUT", IF cthr[t].existed THEN 204 ELSE 201,
                                        "", {}, cthr[t].id)
                 /\ fsFault' = "none"
                 /\ lastPut' = [status |-> crudRes'.status,
                                existed |-> cthr[t].existed,
                                replaced |-> file_exists(cthr[t].type, cthr[t].id)]
            ELSE /\ crudRes' = Response("PUT", 500, "", {}, cthr[t].id)
                 /\ fsFault' = "write_file"
                 /\ UNCHANGED <<files, lastPut>>
    /\ lastPost' = NoPost /\ getAfter' = NoGet
    /\ UNCHANGED <<dirs, lastAssign, crudOps>>
    /\ UNCHANGED exceptCrud

\* handle_request and handle_delete
Delete ==
    /\ Running /\ crudOps < MaxCrudOps
    /\ \E t \in FreeThread, type \in Types, id \in KnownIds \cup {NoId},
          do \in DeleteOutcomes :
         /\ cthr[t].step = "idle"
         /\ IF id = NoId \/ ~file_exists(type, id)
            THEN /\ crudRes' = Response("DELETE", IF id = NoId THEN 400 ELSE 404,
                                        "", {}, id)
                 /\ fsFault' = "none"
                 /\ UNCHANGED <<files, cthr>>
            ELSE IF do = "throws"
            THEN /\ Thrown(t, "DELETE", "delete_file")
                 /\ UNCHANGED files
            ELSE IF do = "false"
            THEN /\ crudRes' = Response("DELETE", 500, "", {}, id)
                 /\ fsFault' = "delete_file"
                 /\ UNCHANGED <<files, cthr>>
            ELSE /\ files' = delete_file(type, id)
                 /\ crudRes' = Response("DELETE", 204, "", {}, id)
                 /\ fsFault' = "none"
                 /\ UNCHANGED cthr
    /\ lastPost' = NoPost /\ getAfter' = NoGet
    /\ crudOps' = crudOps + 1
    /\ UNCHANGED <<dirs, lastAssign, lastPut>>
    /\ UNCHANGED exceptCrud

CrudNext ==
    PostBegin \/ PostWrite \/ PostReturn \/ Get \/ PutBegin \/ PutWrite \/ Delete

SpecCrud == CrudInit /\ [][CrudNext]_vars

\* C7: a GET of the entity a POST was just answered 201 for returns 200
\* with exactly the posted body.
C7_GetAfterPostReturnsBody ==
    getAfter # NoGet => (getAfter.status = 200 /\ getAfter.body = getAfter.posted)

\* the successor of n in decimal, also where n + 1 is not an int
Successor(n) ==
    IF n = IntMax THEN <<"2", "1", "4", "7", "4", "8", "3", "6", "4", "8">>
    ELSE to_string(n + 1)

\* a file name that is an integer from the first character to the last
IntegerName(name) ==
    /\ Stoi(name).ok
    /\ name = to_string(Stoi(name).val)

\* C8: the id a POST assigns is one plus the largest integer file name in
\* the directory of the type at that moment, or 1 when there is none.
C8_IdIsMaxPlusOne ==
    lastAssign # NoAssign =>
        LET ints == {Stoi(n).val : n \in {m \in lastAssign.names : IntegerName(m)}} IN
        /\ ~lastAssign.crashed
        /\ lastAssign.id = IF ints = {} THEN <<"1">> ELSE Successor(SetMax(ints))

\* C28: two POSTs to the same entity type that are both answered 201, one
\* right after the other, return different ids (and so wrote different
\* files), also when different workers handled them at the same time.
C28_PostsReturnDistinctIds ==
    [][\A t \in CrudThreads :
          (cthr[t].step = "written" /\ cthr'[t] = Idle /\ lastPost # NoPost
              /\ lastPost' # NoPost /\ lastPost.type = cthr[t].type) =>
                lastPost.id # cthr[t].id]_vars

\* C37: a POST whose path carries an id segment is not accepted and
\* creates or modifies no entity: it writes no file and is not answered 201.
C37_PostWithIdForbidden ==
    [][\A t \in CrudThreads :
          (cthr[t].onId /\ cthr[t].step \in {"gen", "written"} /\ cthr'[t] # cthr[t]) =>
              /\ files' = files
              /\ ~(cthr'[t] = Idle /\ crudRes'.verb = "POST" /\ crudRes'.status = 201)]_vars

\* C18: a PUT with a valid JSON body that was accepted and stored answers
\* 201 exactly when no entity existed at the id when it was stored, and 204
\* exactly when one existed.
C18_PutCreatedIffAbsent ==
    lastPut # NoPut =>
        /\ lastPut.status = 201 <=> ~lastPut.replaced
        /\ lastPut.status = 204 <=> lastPut.replaced

\* C19: a request during which a filesystem call failed is answered 500.
C19_FsFailureAnswers500 ==
    fsFault # "none" => crudRes.status = 500

-----------------------------------------------------------------------------
(* The handlers that turn a request target into filesystem paths:          *)
(* static_handler, CrudRequestHandler (GET) and markdown_handler, each     *)
(* constructed for the location /a over the directory /a.                  *)

\* the characters of a target after the location prefix
MaxRestLen == 7

PathAlphabet == {"/", ".", "a"}
LocationPrefix == <<"/", "a">>
RootDir == <<"/", "a">>

Dot == <<".">>
DotDot == <<".", ".">>

\* the tree on disk, a node being the sequence of its path components:
\* the root /a holds a directory and a file; /aa, /aa/a and /aaa lie outside
RootNode == << <<"a">> >>
FsDirs == { <<>>, RootNode, << <<"a">>, <<"a">> >>, << <<"a", "a">> >> }
FsFiles == { << <<"a">>, <<"a", "a">> >>, << <<"a", "a">>, <<"a">> >>,
             << <<"a", "a", "a">> >> }

\* std::string::find(sub) != npos
Contains(str, sub) ==
    \E i \in 1..(Len(str) - Len(sub) + 1) : SubSeq(str, i, i + Len(sub) - 1) = sub

\* std::string::find(c, from) as a position counted from 1, 0 for npos
FindFrom(str, c, from) ==
    IF \E i \in from..Len(str) : str[i] = c
    THEN CHOOSE i \in from..Len(str) :
             str[i] = c /\ \A j \in from..(i - 1) : str[j] # c
    ELSE 0

\* the components of a path: the pieces between slashes
RECURSIVE SplitFrom(_, _, _)
SplitFrom(str, i, cur) ==
    IF i > Len(str) THEN (IF cur = <<>> THEN <<>> ELSE <<cur>>)
    ELSE IF str[i] = "/"
         THEN (IF cur = <<>> THEN <<>> ELSE <<cur>>) \o SplitFrom(str, i + 1, <<>>)
         ELSE SplitFrom(str, i + 1, Append(cur, str[i]))

Components(str) == SplitFrom(str, 1, <<>>)

Parent(node) == IF node = <<>> THEN <<>> ELSE SubSeq(node, 1, Len(node) - 1)

\* path resolution by the operating system, one component at a time
RECURSIVE WalkFrom(_, _, _)
WalkFrom(node, comps, i) ==
    IF i > Len(comps) THEN [ok |-> TRUE, node |-> node]
    ELSE IF node \notin FsDirs THEN [ok |-> FALSE, node |-> <<>>]
    ELSE IF comps[i] = Dot THEN WalkFrom(node, comps, i + 1)
    ELSE IF comps[i] = DotDot THEN WalkFrom(Parent(node), comps, i + 1)
    ELSE IF Append(node, comps[i]) \in FsDirs \cup FsFiles
         THEN WalkFrom(Append(node, comps[i]), comps, i + 1)
         ELSE [ok |-> FALSE, node |-> <<>>]

\* stat(2) of an absolute path: a name with a trailing slash must be a directory
Stat(str) ==
    LET w == WalkFrom(<<>>, Components(str), 1) IN
    IF w.ok /\ w.node \in FsFiles /\ str[Len(str)] = "/"
    THEN [ok |-> FALSE, node |-> <<>>]
    ELSE w

exists(str) == Stat(str).ok
is_directory(str) == Stat(str).ok /\ Stat(str).node \in FsDirs
is_regular_file(str) == Stat(str).ok /\ Stat(str).node \in FsFiles

\* the absolute path string of a node
RECURSIVE NodeString(_)
NodeString(node) ==
    IF node = <<>> THEN <<>>
    ELSE NodeString(Parent(node)) \o <<"/">> \o node[Len(node)]

PathString(node) == IF node = <<>> THEN <<"/">> ELSE NodeString(node)

\* static_handler::url_decode_simple from position i
RECURSIVE DecodeFrom(_, _)
DecodeFrom(enc, i) ==
    IF i > Len(enc) THEN <<>>
    ELSE IF enc[i] = "%" /\ i + 1 < Len(enc) /\ enc[i + 1] = "2" /\ enc[i + 2] = "0"
         THEN <<" ">> \o DecodeFrom(enc, i + 3)
    ELSE IF enc[i] = "+" THEN <<" ">> \o DecodeFrom(enc, i + 1)
    ELSE <<enc[i]>> \o DecodeFrom(enc, i + 1)

url_decode_simple(enc) == DecodeFrom(enc, 1)

Read(node) == [op |-> "read", node |-> node]
List(node) == [op |-> "list", node |-> node]

\* static_handler::handle_request: the file it opens for a target
StaticAccess(target) ==
    LET decoded == url_decode_simple(target) IN
    IF ~StartsWith(decoded, LocationPrefix) THEN {}
    ELSE LET rel0 == SubSeq(decoded, Len(LocationPrefix) + 1, Len(decoded))
             rel  == IF rel0 = <<>> \/ rel0[1] # "/" THEN <<"/">> \o rel0 ELSE rel0
             root == IF Len(RootDir) > 1 /\ RootDir[Len(RootDir)] = "/"
                     THEN SubSeq(RootDir, 1, Len(RootDir) - 1) ELSE RootDir
             path == root \o rel
         IN  IF Contains(path, DotDot) \/ ~StartsWith(path, RootDir) THEN {}
             ELSE IF is_regular_file(path) THEN {Read(Stat(path).node)}
             ELSE {}

\* CrudRequestHandler::parse_path; the empty id stands for std::nullopt
parse_path(path) ==
    LET start == IF Len(path) > 0 /\ path[1] = "/" THEN 1 ELSE 0
        sep   == FindFrom(path, "/", start + 1)
        type  == IF sep = 0 THEN SubSeq(path, start + 1, Len(path))
                 ELSE SubSeq(path, start + 1, sep - 1)
        none  == [type |-> <<>>, id |-> <<>>]
    IN  IF start >= Len(path) \/ type = <<>> THEN none
        ELSE IF sep # 0 /\ sep < Len(path)
             THEN IF FindFrom(path, "/", sep + 1) # 0 THEN none
                  ELSE [type |-> type, id |-> SubSeq(path, sep + 1, Len(path))]
             ELSE [type |-> type, id |-> <<>>]

\* CrudRequestHandler::handle_request and handle_get: what a GET reads or lists
CrudAccess(target) ==
    IF ~StartsWith(target, LocationPrefix) THEN {}
    ELSE LET pp  == parse_path(SubSeq(target, Len(LocationPrefix) + 1, Len(target)))
             dir == RootDir \o <<"/">> \o pp.type
         IN  IF pp.type = <<>> THEN {}
             ELSE IF pp.id # <<>>
                  THEN IF is_regular_file(dir \o <<"/">> \o pp.id)
                       THEN {Read(Stat(dir \o <<"/">> \o pp.id).node)}
                       ELSE {}
                  ELSE IF is_directory(dir) THEN {List(Stat(dir).node)}
                       ELSE {}

\* std::filesystem::path::lexically_normal on the components of an absolute path
RECURSIVE NormalFrom(_, _, _)
NormalFrom(node, comps, i) ==
    IF i > Len(comps) THEN node
    ELSE IF comps[i] = Dot THEN NormalFrom(node, comps, i + 1)
    ELSE IF comps[i] = DotDot THEN NormalFrom(Parent(node), comps, i + 1)
    ELSE NormalFrom(Append(node, comps[i]), comps, i + 1)

\* the longest leading part of the components that exists
ExistingLength(comps) ==
    CHOOSE k \in 0..Len(comps) :
        /\ WalkFrom(<<>>, SubSeq(comps, 1, k), 1).ok
        /\ \A j \in (k + 1)..Len(comps) : ~WalkFrom(<<>>, SubSeq(comps, 1, j), 1).ok

\* std::filesystem::weakly_canonical: canonical where the path exists,
\* else the canonical existing part followed by the rest, normalised
weakly_canonical(str) ==
    IF exists(str) THEN PathString(Stat(str).node)
    ELSE LET comps == Components(str)
             k     == ExistingLength(comps)
         IN  PathString(NormalFrom(WalkFrom(<<>>, SubSeq(comps, 1, k), 1).node,
                                   comps, k + 1))

\* std::filesystem::path::extension of the last component
Extension(str) ==
    LET comps == Components(str)
        name  == IF comps = <<>> \/ str[Len(str)] = "/" THEN <<>>
                 ELSE comps[Len(comps)]
        dots  == {i \in 2..Len(name) : name[i] = "."}
    IN  IF name \in {Dot, DotDot} \/ dots = {} THEN <<>>
        ELSE SubSeq(name, SetMax(dots), Len(name))

\* markdown_handler::handle_request: what it lists or reads for a target
MarkdownAccess(target) ==
    LET comparable == LocationPrefix \o <<"/">> IN
    IF ~StartsWith(target, comparable) /\ target # LocationPrefix THEN {}
    ELSE LET relative == IF StartsWith(target, comparable)
                         THEN SubSeq(target, Len(comparable) + 1, Len(target))
                         ELSE <<>>
             \* fs::path(root) / relative: an absolute right side replaces the left
             target_fs == IF relative # <<>> /\ relative[1] = "/" THEN relative
                          ELSE RootDir \o <<"/">> \o relative
             canonical_root == PathString(Stat(RootDir).node)
             canonical_target == weakly_canonical(target_fs)
         IN  IF ~StartsWith(canonical_target, canonical_root) THEN {}
             ELSE IF is_directory(canonical_target)
                  THEN IF target[Len(target)] # "/" THEN {}
                       ELSE {List(Stat(canonical_target).node)}
             ELSE IF Extension(target_fs) # <<".", "m", "d">> THEN {}
             ELSE IF is_regular_file(canonical_target)
                  THEN {Read(Stat(canonical_target).node)}
                  ELSE {}

PathHandlers == {"StaticHandler", "CrudHandler", "MarkdownHandler"}

PathTargets == {LocationPrefix \o r : r \in StringsUpTo(PathAlphabet, MaxRestLen)}

Access(handler, target) ==
    CASE handler = "StaticHandler" -> StaticAccess(target)
      [] handler = "CrudHandler" -> CrudAccess(target)
      [] handler = "MarkdownHandler" -> MarkdownAccess(target)

\* a request routed to one of the handlers
PathInit ==
    /\ pathReq \in [handler : PathHandlers, target : PathTargets]
    /\ pathAcc = {}
    /\ pathDone = FALSE
    /\ RouteIdle /\ SessIdle /\ PoolIdle /\ CrudIdle /\ MainIdle /\ CacheIdle /\ MdIdle /\ ConfigIdle /\ FsIdle /\ TplIdle /\ LifeIdle /\ LockIdle /\ StoreIdle

\* handle_request runs
Resolve ==
    /\ ~pathDone
    /\ pathAcc' = Access(pathReq.handler, pathReq.target)
    /\ pathDone' = TRUE
    /\ UNCHANGED pathReq
    /\ UNCHANGED exceptPath

PathNext == Resolve

SpecPath == PathInit /\ [][PathNext]_vars

\* a node is the root directory of the handlers or lies below it
InsideRoot(node) == StartsWith(node, RootNode)

\* C9: whatever the handler and the target, every file read and every
\* directory listed lies inside the handler's root.
C9_AccessStaysInsideRoot ==
    \A acc \in pathAcc : InsideRoot(acc.node)

-----------------------------------------------------------------------------
(* main(): parse the config, read the port, build the registry, construct  *)
(* the server and run io_service until a signal stops it.                  *)

\* the port tokens of the config; the empty token stands for a config
\* without a "port <n>;" statement
NoPort == <<>>
PortTokens ==
    { NoPort, <<"0">>, <<"1">>, <<"8", "0">>, <<"-", "1">>, <<"x">>,
      <<"6", "5", "5", "3", "5">>, <<"6", "5", "5", "3", "6">>,
      <<"8", "0", "x">>, <<"9", "9", "9", "9", "9", "9", "9", "9", "9", "9">> }

\* GetPort: the value, or thrown where std::stoi throws
GetPort(tok) ==
    IF tok = NoPort THEN [thrown |-> FALSE, val |-> 0]
    ELSE IF Stoi(tok).ok THEN [thrown |-> FALSE, val |-> Stoi(tok).val]
    ELSE [thrown |-> TRUE, val |-> 0]

\* a range test without the upper limit
PortInRange_NoUpperLimit(port) == port > 0

\* the range test of main: !(port <= 0 || port > 65535)
PortInRange(port) == ~(port <= 0 \/ port > 65535)

MainInit ==
    /\ mainPc = "start"
    /\ mainIn \in [parseOk : BOOLEAN, portTok : PortTokens, config : ConfigSet]
    /\ exitCode = -1
    /\ serverStarted = FALSE
    /\ RouteIdle /\ SessIdle /\ PoolIdle /\ CrudIdle /\ PathIdle /\ CacheIdle /\ MdIdle /\ ConfigIdle /\ FsIdle /\ TplIdle /\ LifeIdle /\ LockIdle /\ StoreIdle

\* parser.Parse(argv[1], &config)
ParseConfig ==
    /\ mainPc = "start"
    /\ IF mainIn.parseOk
       THEN mainPc' = "parsed" /\ UNCHANGED exitCode
       ELSE mainPc' = "exited" /\ exitCode' = 1
    /\ UNCHANGED <<mainIn, serverStarted>>
    /\ UNCHANGED exceptMain

\* port = GetPort(config) and the range test
ReadPort ==
    /\ mainPc = "parsed"
    /\ LET p == GetPort(mainIn.portTok) IN
       IF ~p.thrown /\ PortInRange(p.val)
       THEN mainPc' = "ported" /\ UNCHANGED exitCode
       ELSE mainPc' = "exited" /\ exitCode' = 1
    /\ UNCHANGED <<mainIn, serverStarted>>
    /\ UNCHANGED exceptMain

\* registry->Init(config)
BuildRegistry ==
    /\ mainPc = "ported"
    /\ IF InitScan(mainIn.config, 1, <<>>).ok
       THEN mainPc' = "built" /\ UNCHANGED exitCode
       ELSE mainPc' = "exited" /\ exitCode' = 1
    /\ UNCHANGED <<mainIn, serverStarted>>
    /\ UNCHANGED exceptMain

\* server s(io_service, port, registry): the constructor arms the first accept
StartServer ==
    /\ mainPc = "built"
    /\ mainPc' = "running"
    /\ serverStarted' = TRUE
    /\ UNCHANGED <<mainIn, exitCode>>
    /\ UNCHANGED exceptMain

\* SIGINT or SIGTERM: io_service.stop(), the threads are joined, return 0
Shutdown ==
    /\ mainPc = "running"
    /\ mainPc' = "exited"
    /\ exitCode' = 0
    /\ UNCHANGED <<mainIn, serverStarted>>
    /\ UNCHANGED exceptMain

MainNext == ParseConfig \/ ReadPort \/ BuildRegistry \/ StartServer \/ Shutdown

SpecMain == MainInit /\ [][MainNext]_vars

\* the statements of a config that are locations naming a handler type
Locations(cfg) ==
    {i \in 1..Len(cfg) : cfg[i].kw = "location" /\ cfg[i].ntok >= 3}

PortOutside(tok) == ~(Stoi(tok).ok /\ Stoi(tok).val \in 1..65535)

UnknownType(cfg) == \E i \in Locations(cfg) : cfg[i].type \notin RegisteredTypes

InvalidPrefix(cfg) ==
    \E i \in Locations(cfg) :
        \/ cfg[i].prefix = <<>>
        \/ cfg[i].prefix[1] # "/"
        \/ (Len(cfg[i].prefix) > 1 /\ cfg[i].prefix[Len(cfg[i].prefix)] = "/")

DuplicatePrefix(cfg) ==
    \E i, j \in Locations(cfg) : i # j /\ cfg[i].prefix = cfg[j].prefix

BadStartup ==
    \/ ~mainIn.parseOk
    \/ PortOutside(mainIn.portTok)
    \/ UnknownType(mainIn.config)
    \/ InvalidPrefix(mainIn.config)
    \/ DuplicatePrefix(mainIn.config)

\* C11: with a config that fails to parse, a port outside 1-65535, an
\* unknown handler type or an invalid or duplicated prefix, the server is
\* never started and main does not run past its checks: it can only return,
\* and it returns a nonzero status.
C11_BadStartupExitsNonzero ==
    (mainPc # "idle" /\ BadStartup) =>
        /\ ~serverStarted
        /\ mainPc \notin {"built", "running"}
        /\ mainPc = "exited" => exitCode # 0

\* a duplicated prefix, everything else in order: main has returned 1
C11_Witness ==
    /\ mainPc = "exited" /\ exitCode = 1
    /\ mainIn.parseOk /\ ~PortOutside(mainIn.portTok)
    /\ DuplicatePrefix(mainIn.config)
    /\ ~UnknownType(mainIn.config) /\ ~InvalidPrefix(mainIn.config)


-----------------------------------------------------------------------------
(* The directory listings of markdown_handler and their cache.  Two       *)
(* workers handle requests for one directory; the cache lookup and the    *)
(* cache store each run under g_dir_cache_mu, the scan between them does  *)
(* not.                                                                    *)

\* the resolution of the modelled clock
TicksPerSecond == 2

\* the last time point
MaxClock == 11

\* the listing responses observed
MaxListings == 2

\* how often the directory changes
MaxDirChanges == 1

\* static constexpr std::chrono::seconds kDirCacheTTL{5}
kDirCacheTTL == 5

CacheWorkers == 1..2

\* full_page.size() for the contents the directory can have
PageSizes == {1, 2}

\* If-None-Match, If-Modified-Since: absent, equal to the entry, different
Conditionals == {"none", "inm", "ims", "stale"}

\* duration_cast<seconds>(now.time_since_epoch()).count()
Seconds(t) == t \div TicksPerSecond

\* "\"" + to_string(full_page.size()) + "-" + to_string(seconds) + "\""
EtagOf(size, now) ==
    <<"\"">> \o to_string(size) \o <<"-">> \o to_string(Seconds(now)) \o <<"\"">>

\* it != end() && now - it->second.saved < kDirCacheTTL
CacheHit(now) ==
    g_dir_cache.present /\ now - g_dir_cache.saved < kDirCacheTTL * TicksPerSecond

\* a listing response: when its request was handled, its status and ETag,
\* and the state of the directory when it was returned
Listing(now, status, etag) ==
    [now |-> now, status |-> status, etag |-> etag, gen |-> dirGen]

CacheInit ==
    /\ clock = 0
    /\ dirGen = 0
    /\ dirSize \in PageSizes
    /\ g_dir_cache = NoCache
    /\ wpc = [w \in CacheWorkers |-> "idle"]
    /\ wnow = [w \in CacheWorkers |-> 0]
    /\ listings = <<>>
    /\ RouteIdle /\ SessIdle /\ PoolIdle /\ CrudIdle /\ PathIdle /\ MainIdle /\ MdIdle /\ ConfigIdle /\ FsIdle /\ TplIdle /\ LifeIdle /\ LockIdle /\ StoreIdle

\* time passes
Tick ==
    /\ clock >= 0 /\ clock < MaxClock
    /\ clock' = clock + 1
    /\ UNCHANGED <<dirGen, dirSize, g_dir_cache, wpc, wnow, listings>>
    /\ UNCHANGED exceptCache

\* a file is added to, removed from or renamed in the directory
ChangeDir ==
    /\ clock >= 0 /\ dirGen < MaxDirChanges
    /\ dirGen' = dirGen + 1
    /\ dirSize' \in PageSizes
    /\ UNCHANGED <<clock, g_dir_cache, wpc, wnow, listings>>
    /\ UNCHANGED exceptCache

\* handle_request for the directory, up to the end of the cache lookup: a
\* fresh entry is answered from (304 or 200), otherwise the scan follows
CacheLookup ==
    /\ clock >= 0 /\ Len(listings) < MaxListings
    /\ \E w \in CacheWorkers, cond \in Conditionals :
         /\ wpc[w] = "idle"
         /\ wnow' = [wnow EXCEPT ![w] = clock]
         /\ IF CacheHit(clock)
            THEN /\ listings' = Append(listings,
                        Listing(clock,
                                IF cond \in {"inm", "ims"} THEN 304 ELSE 200,
                                g_dir_cache.etag))
                 /\ UNCHANGED wpc
            ELSE /\ wpc' = [wpc EXCEPT ![w] = "miss"]
                 /\ UNCHANGED listings
    /\ UNCHANGED <<clock, dirGen, dirSize, g_dir_cache>>
    /\ UNCHANGED exceptCache

\* the rest of handle_request after a miss: scan, render, make the ETag
\* from the page size and `now`, store the entry, answer 200; or answer 500
\* when the directory cannot be iterated
Render ==
    /\ \E w \in CacheWorkers, scanned \in BOOLEAN :
         /\ wpc # <<>> /\ wpc[w] = "miss"
         /\ wpc' = [wpc EXCEPT ![w] = "idle"]
         /\ IF scanned
            THEN /\ g_dir_cache' = [present |-> TRUE,
                                    etag |-> EtagOf(dirSize, wnow[w]),
                                    saved |-> wnow[w]]
                 /\ listings' = Append(listings,
                        Listing(wnow[w], 200, EtagOf(dirSize, wnow[w])))
            ELSE UNCHANGED <<g_dir_cache, listings>>
    /\ UNCHANGED <<clock, dirGen, dirSize, wnow>>
    /\ UNCHANGED exceptCache

CacheNext == Tick \/ ChangeDir \/ CacheLookup \/ Render

SpecCache == CacheInit /\ [][CacheNext]_vars

\* the two listings were handled less / more than kDirCacheTTL apart
Apart(i, j) ==
    IF listings[i].now < listings[j].now
    THEN listings[j].now - listings[i].now
    ELSE listings[i].now - listings[j].now

\* C15: two listing responses of the directory handled within 5 seconds of
\* each other carry the same ETag, whichever workers handled them.
C15_SameEtagWithinTTL ==
    \A i, j \in 1..Len(listings) :
        Apart(i, j) < kDirCacheTTL * TicksPerSecond
            => listings[i].etag = listings[j].etag

\* C16: two listing responses of the directory handled more than 5 seconds
\* apart carry different ETags if and only if the directory changed between
\* them.
C16_EtagDiffersIffDirChanged ==
    \A i, j \in 1..Len(listings) :
        Apart(i, j) > kDirCacheTTL * TicksPerSecond
            => (listings[i].etag # listings[j].etag
                    <=> listings[i].gen # listings[j].gen)

-----------------------------------------------------------------------------
(* The file branch of markdown_handler::handle_request: one .md file below *)
(* the handler's root, requested repeatedly while it may be modified.      *)

\* the last modification time a file takes
MaxMtime == 2

\* const uintmax_t MAX_FILE_SIZE = 1 * 1024 * 1024
MAX_FILE_SIZE == 1048576

\* the sizes of the file: empty, small, over the limit
FileSizes == {0, 1, MAX_FILE_SIZE + 1}

FileStates ==
    [exists : {TRUE}, size : FileSizes, mtime : 0..MaxMtime] \cup {NoFile}

\* a value of If-None-Match that is no ETag of the file
OtherEtag == <<"x">>

\* "\"" + to_string(file_size) + "-" + to_string(mtime_secs) + "\""
FileEtag(file) ==
    <<"\"">> \o to_string(file.size) \o <<"-">>
        \o to_string(Seconds(file.mtime)) \o <<"\"">>

\* a handler that looks at If-Modified-Since before If-None-Match
SendNotModified_SinceFirst(inm, ims, etag) ==
    IF ims # "none" THEN ims = "match" ELSE inm # NoEtag /\ inm = etag

\* send_304: If-None-Match decides when present, else If-Modified-Since
SendNotModified(inm, ims, etag) ==
    IF inm # NoEtag THEN inm = etag ELSE ims # "none" /\ ims = "match"

\* the response of handle_request for the file: status, ETag, body
FileResponse(file, inm, ims, raw, readOk) ==
    IF ~file.exists
    THEN [status |-> 404, etag |-> NoEtag, body |-> "message"]
    ELSE IF SendNotModified(inm, ims, FileEtag(file))
    THEN [status |-> 304, etag |-> FileEtag(file), body |-> "empty"]
    ELSE IF file.size > MAX_FILE_SIZE
    THEN [status |-> 413, etag |-> NoEtag, body |-> "message"]
    ELSE IF file.size = 0
    THEN [status |-> 200, etag |-> NoEtag, body |-> "empty"]
    ELSE IF ~readOk
    THEN [status |-> 500, etag |-> NoEtag, body |-> "message"]
    ELSE IF raw
    THEN [status |-> 200, etag |-> FileEtag(file), body |-> "markdown"]
    ELSE [status |-> 200, etag |-> FileEtag(file), body |-> "html"]

\* an exchange: the If-None-Match sent, the response, the file as it was
Exchange(file, inm, res) ==
    [inm |-> inm, status |-> res.status, etag |-> res.etag, body |-> res.body,
     file |-> file]

MdInit ==
    /\ mdFile \in FileStates
    /\ mdPrev = NoExchange
    /\ mdLast = NoExchange
    /\ mdOn = TRUE
    /\ RouteIdle /\ SessIdle /\ PoolIdle /\ CrudIdle /\ PathIdle /\ MainIdle /\ ConfigIdle /\ FsIdle /\ TplIdle /\ LifeIdle /\ LockIdle /\ StoreIdle
    /\ CacheIdle

\* the file is written, touched, created or removed
ModifyFile ==
    /\ mdOn
    /\ \E f \in FileStates :
         /\ f # mdFile
         /\ (f.exists /\ mdFile.exists) => f.mtime >= mdFile.mtime
         /\ mdFile' = f
    /\ UNCHANGED <<mdPrev, mdLast, mdOn>>
    /\ UNCHANGED exceptMd

\* handle_request for the file; If-None-Match is absent, the ETag of the
\* last response, or something else
FileRequest ==
    /\ mdOn
    /\ \E inm \in {NoEtag, OtherEtag, mdLast.etag},
          ims \in {"none", "match", "other"}, raw \in BOOLEAN, readOk \in BOOLEAN :
         /\ mdPrev' = mdLast
         /\ mdLast' = Exchange(mdFile, inm,
                               FileResponse(mdFile, inm, ims, raw, readOk))
    /\ UNCHANGED <<mdFile, mdOn>>
    /\ UNCHANGED exceptMd

MdNext == ModifyFile \/ FileRequest

SpecMd == MdInit /\ [][MdNext]_vars

\* the last request is a follow-up of the one before: same file, with
\* If-None-Match equal to the ETag that response carried
FollowUp ==
    /\ mdPrev.etag # NoEtag
    /\ mdPrev.file.size <= MAX_FILE_SIZE
    /\ mdLast.inm = mdPrev.etag

\* C17 as stated: a follow-up with If-None-Match equal to the ETag of the
\* earlier response is answered 304 without a body.
C17_FollowUpNotModified ==
    FollowUp => mdLast.status = 304 /\ mdLast.body = "empty"

\* C17: a follow-up with If-None-Match equal to the ETag of the earlier
\* response is answered 304 without a body when the file still exists with
\* the size and the modification second it had at the earlier response.
C17_FollowUpNotModifiedIfUnchanged ==
    (/\ FollowUp
     /\ mdLast.file.exists
     /\ mdLast.file.size = mdPrev.file.size
     /\ Seconds(mdLast.file.mtime) = Seconds(mdPrev.file.mtime))
        => mdLast.status = 304 /\ mdLast.body = "empty"

\* a follow-up to a rendered page, sent with a non-matching
\* If-Modified-Since as well, answered 304
C17_Witness ==
    /\ FollowUp
    /\ mdPrev.status = 200 /\ mdPrev.body = "html"
    /\ mdLast.file = mdPrev.file
    /\ mdLast.status = 304 /\ mdLast.body = "empty"

-----------------------------------------------------------------------------
(* The config parser and the serializer of the parsed tree.  A text is a   *)
(* sequence of characters; a config is a sequence of statements, each with *)
(* its tokens and, when it has one, its child block.                       *)

\* how many lexical pieces a text is put together from
MaxPieces == 5

\* pieces of config text: a word, a double-quoted string holding an escaped
\* quote, the punctuation, a comment line, a single-quoted string, a word
\* that ends in a carriage return
Pieces ==
    { <<"a", " ">>,
      <<"\"", "\\", "\"", "\"", " ">>,
      <<";">>, <<"{">>, <<"}">>,
      <<"#", "\n">>,
      <<"'", "b", "'">>,
      <<"a", "\r">> }

RECURSIVE TextsOf(_)
TextsOf(n) ==
    IF n = 0 THEN {<<>>}
    ELSE LET shorter == TextsOf(n - 1) IN
         shorter \cup {t \o p : t \in shorter, p \in Pieces}

\* what may follow a closing quote
Delimiters == {" ", "\t", "\n", "\r", ";", "{", "}"}

\* what ends a normal token (the code names '\t' twice and '\r' not at all)
NormalEnd == {" ", "\t", "\n", ";", "{", "}"}

Token(type, value, pos) == [type |-> type, value |-> value, pos |-> pos]

\* the loop of ParseToken from character i on, in a tokenizer state
RECURSIVE Scan(_, _, _, _)
Scan(s, i, state, value) ==
    IF i > Len(s)
    THEN Token(IF state \in {"SINGLE_QUOTE", "DOUBLE_QUOTE"} THEN "ERROR" ELSE "EOF",
               value, i)
    ELSE LET c == s[i] IN
         CASE state = "INITIAL_WHITESPACE" ->
                IF c = "{" THEN Token("START_BLOCK", <<c>>, i + 1)
                ELSE IF c = "}" THEN Token("END_BLOCK", <<c>>, i + 1)
                ELSE IF c = "#" THEN Scan(s, i + 1, "COMMENT", <<c>>)
                ELSE IF c = "\"" THEN Scan(s, i + 1, "DOUBLE_QUOTE", <<c>>)
                ELSE IF c = "'" THEN Scan(s, i + 1, "SINGLE_QUOTE", <<c>>)
                ELSE IF c = ";" THEN Token("STATEMENT_END", <<c>>, i + 1)
                ELSE IF c \in {" ", "\t", "\n", "\r"} THEN Scan(s, i + 1, state, value)
                ELSE Scan(s, i + 1, "NORMAL", Append(value, c))
           [] state \in {"SINGLE_QUOTE", "DOUBLE_QUOTE"} ->
                IF c = "\\"
                THEN IF i + 1 <= Len(s)
                     THEN Scan(s, i + 2, state, value \o <<c, s[i + 1]>>)
                     ELSE Scan(s, i + 2, state, Append(value, c))
                ELSE IF c = (IF state = "SINGLE_QUOTE" THEN "'" ELSE "\"")
                THEN IF i + 1 <= Len(s) /\ s[i + 1] \notin Delimiters
                     THEN Token("ERROR", Append(value, c), i + 1)
                     ELSE Token("QUOTED_STRING", Append(value, c), i + 1)
                ELSE Scan(s, i + 1, state, Append(value, c))
           [] state = "COMMENT" ->
                IF c \in {"\n", "\r"} THEN Token("COMMENT", value, i + 1)
                ELSE Scan(s, i + 1, state, Append(value, c))
           [] state = "NORMAL" ->
                IF c \in NormalEnd THEN Token("NORMAL", value, i)
                ELSE Scan(s, i + 1, state, Append(value, c))

\* NginxConfigParser::ParseToken on the rest of the text
ParseToken(s, pos) == Scan(s, pos, "INITIAL_WHITESPACE", <<>>)

\* a parser that lets '}' follow only a finished statement or block
BlockEndAfter_NoEmptyBlock == {"STATEMENT_END", "END_BLOCK"}

\* the tokens a '}' may follow
BlockEndAfter == {"STATEMENT_END", "END_BLOCK", "START_BLOCK"}

\* a parser that accepts the end of the input inside a block
BlockStillOpen_Ignored(n) == FALSE

\* config_stack.size() != 1 at the end of the input
BlockStillOpen(n) == n # 1

\* new NginxConfigStatement
Statement == [tokens |-> <<>>, has |-> FALSE, block |-> <<>>]

\* the loop of Parse; stack holds the configs from the root to the open block
RECURSIVE ParseFrom(_, _, _, _)
ParseFrom(s, pos, stack, last) ==
    LET tok == ParseToken(s, pos)
        n == Len(stack)
        top == stack[n]
    IN
    CASE tok.type = "ERROR" -> NoParse
      [] tok.type = "COMMENT" -> ParseFrom(s, tok.pos, stack, last)
      [] tok.type \in {"NORMAL", "QUOTED_STRING"} ->
           LET opened == IF last # "NORMAL" THEN Append(top, Statement) ELSE top
               pushed == [opened EXCEPT ![Len(opened)].tokens = Append(@, tok.value)]
           IN ParseFrom(s, tok.pos, [stack EXCEPT ![n] = pushed], tok.type)
      [] tok.type = "STATEMENT_END" ->
           IF last \notin {"NORMAL", "QUOTED_STRING"} THEN NoParse
           ELSE ParseFrom(s, tok.pos, stack, tok.type)
      [] tok.type = "START_BLOCK" ->
           IF last \notin {"NORMAL", "QUOTED_STRING"} THEN NoParse
           ELSE ParseFrom(s, tok.pos,
                          Append([stack EXCEPT ![n] = [top EXCEPT ![Len(top)].has = TRUE]],
                                 <<>>),
                          tok.type)
      [] tok.type = "END_BLOCK" ->
           IF last \notin BlockEndAfter THEN NoParse
           ELSE IF n = 1 THEN NoParse
           ELSE LET parent == stack[n - 1] IN
                ParseFrom(s, tok.pos,
                          Append(SubSeq(stack, 1, n - 2),
                                 [parent EXCEPT ![Len(parent)].block = top]),
                          tok.type)
      [] tok.type = "EOF" ->
           IF tok.value # <<>> \/ last \notin {"START", "STATEMENT_END", "END_BLOCK"}
           THEN NoParse
           ELSE IF BlockStillOpen(n) THEN NoParse
           ELSE [ok |-> TRUE, tree |-> stack[1]]

\* NginxConfigParser::Parse(std::istream*, NginxConfig*)
Parse(s) == ParseFrom(s, 1, << <<>> >>, "START")

\* a serializer that puts nothing between the tokens
TokenSeparator_None == <<>>

\* serialized_statement.append(" ") between two tokens
TokenSeparator == <<" ">>

RECURSIVE JoinTokens(_)
JoinTokens(tokens) ==
    IF tokens = <<>> THEN <<>>
    ELSE IF Len(tokens) = 1 THEN tokens[1]
    ELSE tokens[1] \o TokenSeparator \o JoinTokens(Tail(tokens))

\* two spaces for each level of nesting
Indent(depth) == [i \in 1..(2 * depth) |-> " "]

RECURSIVE ConfigToString(_, _)
RECURSIVE StatementToString(_, _)

\* NginxConfig::ToString
ConfigToString(config_, depth) ==
    IF config_ = <<>> THEN <<>>
    ELSE StatementToString(config_[1], depth) \o ConfigToString(Tail(config_), depth)

\* NginxConfigStatement::ToString
StatementToString(statement, depth) ==
    Indent(depth) \o JoinTokens(statement.tokens)
        \o (IF statement.has
            THEN <<" ", "{", "\n">> \o ConfigToString(statement.block, depth + 1)
                     \o Indent(depth) \o <<"}">>
            ELSE <<";">>)
        \o <<"\n">>

CfgInit ==
    /\ cfgIn \in TextsOf(MaxPieces)
    /\ cfgPc = "read"
    /\ cfgTree = NoParse
    /\ cfgText = <<>>
    /\ cfgBack = NoParse
    /\ RouteIdle /\ SessIdle /\ PoolIdle /\ CrudIdle /\ PathIdle /\ MainIdle
    /\ CacheIdle /\ MdIdle /\ FsIdle /\ TplIdle /\ LifeIdle /\ LockIdle /\ StoreIdle

\* Parse on the text of the file
ParseText ==
    /\ cfgPc = "read"
    /\ cfgTree' = Parse(cfgIn)
    /\ cfgPc' = IF cfgTree'.ok THEN "parsed" ELSE "rejected"
    /\ UNCHANGED <<cfgIn, cfgText, cfgBack>>
    /\ UNCHANGED exceptConfig

\* config.ToString()
Serialize ==
    /\ cfgPc = "parsed"
    /\ cfgText' = ConfigToString(cfgTree.tree, 0)
    /\ cfgPc' = "serialized"
    /\ UNCHANGED <<cfgIn, cfgTree, cfgBack>>
    /\ UNCHANGED exceptConfig

\* Parse on the serialization
Reparse ==
    /\ cfgPc = "serialized"
    /\ cfgBack' = Parse(cfgText)
    /\ cfgPc' = "reparsed"
    /\ UNCHANGED <<cfgIn, cfgTree, cfgText>>
    /\ UNCHANGED exceptConfig

ConfigNext == ParseText \/ Serialize \/ Reparse

SpecConfig == CfgInit /\ [][ConfigNext]_vars

\* C20: for every tree a successful parse produced, parsing its
\* serialization succeeds and gives the same statements, with the same
\* tokens in the same order and the same nesting.
C20_ParseOfSerializationIsSameTree ==
    cfgPc = "reparsed" => cfgBack.ok /\ cfgBack.tree = cfgTree.tree

\* a round trip of a statement with a quoted token and a child block, from
\* a text that is not its own serialization
C20_Witness ==
    /\ cfgPc = "reparsed" /\ cfgBack = cfgTree /\ cfgText # cfgIn
    /\ \E i \in 1..Len(cfgTree.tree) :
         /\ cfgTree.tree[i].has
         /\ Len(cfgTree.tree[i].tokens) = 2
         /\ cfgTree.tree[i].tokens[2][1] = "\""

\* the kinds of the tokens of a text in order, comments left out, up to the
\* end of the text or the first token that is an error
RECURSIVE TokenStream(_, _)
TokenStream(s, pos) ==
    LET tok == ParseToken(s, pos) IN
    IF tok.type \in {"EOF", "ERROR"} THEN <<>>
    ELSE IF tok.type = "COMMENT" THEN TokenStream(s, tok.pos)
    ELSE <<tok.type>> \o TokenStream(s, tok.pos)

\* the token that ends the token stream of a text: the end of the input
\* or an error
RECURSIVE StreamEnd(_, _)
StreamEnd(s, pos) ==
    LET tok == ParseToken(s, pos) IN
    IF tok.type \in {"EOF", "ERROR"} THEN tok ELSE StreamEnd(s, tok.pos)

\* how many of the first k tokens are of a kind
CountOf(ts, k, kinds) == Cardinality({i \in 1..k : ts[i] \in kinds})

\* the statements of a config, those of the child blocks included
RECURSIVE StatementCount(_)
StatementCount(config_) ==
    IF config_ = <<>> THEN 0
    ELSE 1 + StatementCount(config_[1].block) + StatementCount(Tail(config_))

\* C29: in a parse a statement is closed only by ';' or by its block, a
\* word or quoted token that follows another one joins its statement: the
\* tree has as many statements as the text has ';' and '{' tokens.
C29_StatementsClosedByTerminators ==
    (cfgPc # "read" /\ cfgTree.ok) =>
        LET ts == TokenStream(cfgIn, 1) IN
        StatementCount(cfgTree.tree) = CountOf(ts, Len(ts), {"STATEMENT_END", "START_BLOCK"})

\* C30: a parse succeeds only on balanced braces: no '}' arrives while only
\* the root block is open (the depth of the block stack stays at 1 or
\* more), and no block is open at the end of the input.
C30_SuccessOnlyIfBalanced ==
    (cfgPc # "read" /\ cfgTree.ok) =>
        LET ts == TokenStream(cfgIn, 1) IN
        /\ \A k \in 0..Len(ts) :
              1 + CountOf(ts, k, {"START_BLOCK"}) - CountOf(ts, k, {"END_BLOCK"}) >= 1
        /\ CountOf(ts, Len(ts), {"START_BLOCK"}) = CountOf(ts, Len(ts), {"END_BLOCK"})

\* a text with a statement inside a block has been parsed
C30_Witness ==
    /\ cfgPc = "parsed" /\ cfgTree.ok
    /\ \E i \in 1..Len(cfgTree.tree) :
         cfgTree.tree[i].has /\ cfgTree.tree[i].block # <<>>

\* the tokens of every statement of a tree, those of the nested blocks included
RECURSIVE TokensOf(_)
TokensOf(config_) ==
    UNION {{config_[i].tokens[j] : j \in 1..Len(config_[i].tokens)}
              \cup TokensOf(config_[i].block) : i \in 1..Len(config_)}

\* C40: a carriage return separates tokens: the token of a bare word ends
\* before a CR that follows it, so that no bare-word token of a parsed tree
\* holds a CR.
C40_CarriageReturnSeparates ==
    (cfgPc # "read" /\ cfgTree.ok) =>
        \A tok \in TokensOf(cfgTree.tree) :
            (tok # <<>> /\ tok[1] \notin {"\"", "'"}) =>
                \A k \in 1..Len(tok) : tok[k] # "\r"

MaxBlankLen == 4

\* the whitespace of ParseToken, the comment sign and a character of a comment
BlankChars == {" ", "\t", "\n", "\r", "#", "x"}

RECURSIVE BlankTexts(_)
BlankTexts(n) ==
    IF n = 0 THEN {<<>>}
    ELSE LET shorter == BlankTexts(n - 1) IN
         shorter \cup {Append(t, c) : t \in shorter, c \in BlankChars}

\* the text from character i on is whitespace and comments, a comment
\* running from its '#' to the end of its line or of the text
RECURSIVE OnlyBlank(_, _, _)
OnlyBlank(s, i, inComment) ==
    IF i > Len(s) THEN TRUE
    ELSE IF inComment THEN OnlyBlank(s, i + 1, s[i] \notin {"\n", "\r"})
    ELSE IF s[i] = "#" THEN OnlyBlank(s, i + 1, TRUE)
    ELSE s[i] \in {" ", "\t", "\n", "\r"} /\ OnlyBlank(s, i + 1, FALSE)

BlankInit ==
    /\ cfgIn \in {t \in BlankTexts(MaxBlankLen) : OnlyBlank(t, 1, FALSE)}
    /\ cfgPc = "read"
    /\ cfgTree = NoParse
    /\ cfgText = <<>>
    /\ cfgBack = NoParse
    /\ RouteIdle /\ SessIdle /\ PoolIdle /\ CrudIdle /\ PathIdle /\ MainIdle
    /\ CacheIdle /\ MdIdle /\ FsIdle /\ TplIdle /\ LifeIdle /\ LockIdle /\ StoreIdle

BlankNext == ParseText

SpecBlank == BlankInit /\ [][BlankNext]_vars

\* C21: a text of nothing but whitespace and '#' comments parses
\* successfully to an empty root block, the result of parsing the empty text.
C21_BlankParsesToEmptyRoot ==
    cfgPc # "read" => cfgTree = Parse(<<>>) /\ cfgTree.ok /\ cfgTree.tree = <<>>

-----------------------------------------------------------------------------
(* The two FileSystem implementations, MockFileSystem (two maps in memory)  *)
(* and RealFileSystem (std::filesystem), on two directories and two file    *)
(* names.                                                                  *)

FsImpls == {"MockFileSystem", "RealFileSystem"}
FsDirNames == {"/d", "/e"}
FsFileNames == {"1", "2"}

\* the names in the directory path, or nothing when there is no such directory
FsListing(ds, path) == IF path \in DOMAIN ds THEN ds[path] ELSE {}

\* the directories ds with path created empty or emptied
WithEmptyDir(ds, path) ==
    [d \in DOMAIN ds \cup {path} |-> IF d = path THEN {} ELSE ds[d]]

\* create_directory(path): the value returned and the directories afterwards.
\* MockFileSystem assigns an empty vector to mock_directories[path];
\* fs::create_directories returns whether a directory was newly created.
create_directory(impl, ds, path) ==
    IF impl = "MockFileSystem"
    THEN [ret |-> TRUE, dirs |-> WithEmptyDir(ds, path)]
    ELSE [ret |-> path \notin DOMAIN ds,
          dirs |-> IF path \in DOMAIN ds THEN ds ELSE WithEmptyDir(ds, path)]

FsInit ==
    /\ fsImpl \in FsImpls
    /\ fsDirs = << >>
    /\ fsFiles = {}
    /\ lastMk = NoMk
    /\ should_fail = {}
    /\ lastCall = NoFsCall
    /\ RouteIdle /\ SessIdle /\ PoolIdle /\ CrudIdle /\ PathIdle /\ MainIdle
    /\ CacheIdle /\ MdIdle /\ ConfigIdle /\ TplIdle /\ LifeIdle /\ LockIdle /\ StoreIdle

\* the record of a call: MockFileSystem has a flag for each operation, which
\* no operation of mock_file_system.cc reads
FsOps == {"write", "read", "delete", "create_directory"}
Called(op, ret) == [op |-> op, flagged |-> op \in should_fail, ret |-> ret]

\* fs.create_directory(path)
CreateDirectory ==
    \E path \in FsDirNames :
        LET r == create_directory(fsImpl, fsDirs, path) IN
        /\ fsDirs' = r.dirs
        /\ lastMk' = [path |-> path, existed |-> path \in DOMAIN fsDirs,
                      ret |-> r.ret,
                      before |-> FsListing(fsDirs, path),
                      after |-> FsListing(r.dirs, path)]
        /\ lastCall' = Called("create_directory", r.ret)
        /\ UNCHANGED <<fsImpl, fsFiles, should_fail>>
        /\ UNCHANGED exceptFs

\* fs.write_file(dir + "/" + name, content): the mock adds the directory
\* when it is missing, std::ofstream cannot open a file in a missing one
WriteFile ==
    \E dir \in FsDirNames, name \in FsFileNames :
        /\ fsImpl = "RealFileSystem" => dir \in DOMAIN fsDirs
        /\ fsFiles' = fsFiles \cup {<<dir, name>>}
        /\ fsDirs' = [d \in DOMAIN fsDirs \cup {dir} |->
                        IF d = dir THEN FsListing(fsDirs, dir) \cup {name}
                        ELSE fsDirs[d]]
        /\ lastCall' = Called("write", TRUE)
        /\ UNCHANGED <<fsImpl, lastMk, should_fail>>
        /\ UNCHANGED exceptFs

\* fs.delete_file(dir + "/" + name) of a file that exists
DeleteFile ==
    \E dir \in FsDirNames, name \in FsFileNames :
        /\ <<dir, name>> \in fsFiles
        /\ fsFiles' = fsFiles \ {<<dir, name>>}
        /\ fsDirs' = [d \in DOMAIN fsDirs |->
                        IF d = dir THEN fsDirs[d] \ {name} ELSE fsDirs[d]]
        /\ lastCall' = Called("delete", TRUE)
        /\ UNCHANGED <<fsImpl, lastMk, should_fail>>
        /\ UNCHANGED exceptFs

\* fs.read_file(dir + "/" + name): the content of a file that exists,
\* std::nullopt otherwise
ReadFile ==
    \E dir \in FsDirNames, name \in FsFileNames :
        /\ lastCall' = Called("read", <<dir, name>> \in fsFiles)
        /\ UNCHANGED <<fsImpl, fsDirs, fsFiles, lastMk, should_fail>>
        /\ UNCHANGED exceptFs

\* mock_fs->set_write_should_fail(b) and the three other setters
SetShouldFail ==
    \E op \in FsOps, b \in BOOLEAN :
        /\ fsImpl = "MockFileSystem"
        /\ should_fail' = IF b THEN should_fail \cup {op} ELSE should_fail \ {op}
        /\ UNCHANGED <<fsImpl, fsDirs, fsFiles, lastMk, lastCall>>
        /\ UNCHANGED exceptFs

FsNext == CreateDirectory \/ WriteFile \/ DeleteFile \/ ReadFile \/ SetShouldFail

SpecFs == FsInit /\ [][FsNext]_vars

\* C24: create_directory on a directory that already exists succeeds and
\* leaves the set of files listed in it as it was.
C24_CreateDirectoryIdempotent ==
    (lastMk # NoMk /\ lastMk.existed) =>
        /\ lastMk.ret
        /\ lastMk.after = lastMk.before

\* C39: in the in-memory filesystem, a call of an operation whose failure
\* flag is set reports failure.
C39_FlaggedCallFails ==
    (fsImpl = "MockFileSystem" /\ lastCall.op # "none" /\ lastCall.flagged) =>
        ~lastCall.ret

-----------------------------------------------------------------------------
(* markdown_handler::handle_request with a wrapper template: steps 6 to 8   *)
(* after the file has been read.                                           *)

TemplatePaths == {"", "/t.html"}
TemplateFiles == {"missing", "unreadable", "large", "plain", "placeholder"}

\* read_small_file(fs_, template_path_): the content, or nothing when the
\* file is missing, cannot be read or is larger than 1 MB
read_small_file(f) == IF f \in {"plain", "placeholder"} THEN f ELSE "nullopt"

\* step 7: whether the fragment ends up inside the template
Wrapped(path, f) ==
    /\ path # ""
    /\ read_small_file(f) # "nullopt"
    /\ read_small_file(f) = "placeholder"

\* the response of handle_request by a handler constructed with a template
\* path, with the If-None-Match and If-Modified-Since it answers
PageResponse(file, inm, ims, raw, readOk, path, f) ==
    LET r == FileResponse(file, inm, ims, raw, readOk) IN
    IF r.body # "html"
    THEN [status |-> r.status, body |-> r.body, rendered |-> FALSE,
          etag |-> r.etag, inm |-> inm, ims |-> ims]
    ELSE [status |-> 200,
          body |-> IF Wrapped(path, f) THEN "page" ELSE "html",
          rendered |-> TRUE, etag |-> r.etag, inm |-> inm, ims |-> ims]

TplInit ==
    /\ template_path_ \in TemplatePaths
    /\ tplFile \in TemplateFiles
    /\ tplMd \in FileStates
    /\ tplRes = NoPage
    /\ RouteIdle /\ SessIdle /\ PoolIdle /\ CrudIdle /\ PathIdle /\ MainIdle
    /\ CacheIdle /\ MdIdle /\ ConfigIdle /\ FsIdle /\ LifeIdle /\ LockIdle /\ StoreIdle

\* the template file is written, removed or made unreadable
ChangeTemplate ==
    /\ \E f \in TemplateFiles : f # tplFile /\ tplFile' = f
    /\ UNCHANGED <<template_path_, tplMd, tplRes>>
    /\ UNCHANGED exceptTpl

\* handle_request for the Markdown file
PageRequest ==
    /\ \E inm \in {NoEtag, OtherEtag, FileEtag(tplMd)},
          ims \in {"none", "match", "other"}, raw \in BOOLEAN, readOk \in BOOLEAN :
         tplRes' = PageResponse(tplMd, inm, ims, raw, readOk, template_path_, tplFile)
    /\ UNCHANGED <<template_path_, tplFile, tplMd>>
    /\ UNCHANGED exceptTpl

TplNext == ChangeTemplate \/ PageRequest

SpecTpl == TplInit /\ [][TplNext]_vars

\* C25: with a template configured and its file missing or unreadable, a
\* request that reads and renders an existing Markdown file is answered 500.
C25_MissingTemplateAnswers500 ==
    (/\ tplRes # NoPage
     /\ tplMd.exists /\ tplRes.rendered
     /\ template_path_ # ""
     /\ tplFile \in {"missing", "unreadable"}) => tplRes.status = 500

\* C36: a request for an existing Markdown file whose If-None-Match equals
\* the ETag of the file, or whose If-Modified-Since equals its
\* Last-Modified, is answered 304 with the ETag and no body, whatever the
\* other of the two headers holds.
C36_EitherConditionGives304 ==
    (/\ tplRes # NoPage /\ tplMd.exists
     /\ (tplRes.inm = FileEtag(tplMd) \/ tplRes.ims = "match")) =>
        /\ tplRes.status = 304
        /\ tplRes.body = "empty"
        /\ tplRes.etag = FileEtag(tplMd)

-----------------------------------------------------------------------------
(* The lifetime of the session objects.  server::start_accept constructs a *)
(* session and starts the accept that refers to it; every asynchronous     *)
(* operation of a session is pending until an io_service thread runs its   *)
(* completion handler, which starts the next operation or deletes the      *)
(* session.  Handlers of different sessions run at the same time on        *)
(* different threads.                                                      *)

\* how many sessions start_accept constructs
NSess == 3
\* how many responses a kept-alive session writes
MaxRounds == 2

LifeThreads == 1..MinThreads
SessIds == 1..NSess

\* new session(io_service_, registry_) with its accept pending
NewSession == [state |-> "alive", dtors |-> 0, ops |-> {"accept"}, rounds |-> 0]
\* a session that start_accept has not constructed yet
NoSession == [state |-> "none", dtors |-> 0, ops |-> {}, rounds |-> 0]

\* delete this / delete new_session
Destroy(s) == [s EXCEPT !.state = "destroyed", !.dtors = @ + 1]

\* the operation session::start or async_write leaves pending
Pending(s, op) == [s EXCEPT !.ops = @ \cup {op}]

\* a handle_read that does not return after `delete this` on end of stream
OpsAfterRead_WriteOnEof(outcome) == {"write"}

\* the operation handle_read starts: none on end of stream, else the write
OpsAfterRead(outcome) == IF outcome = "eof" THEN {} ELSE {"write"}

LifeInit ==
    /\ sess = [c \in SessIds |-> IF c = 1 THEN NewSession ELSE NoSession]
    /\ callbacks = [t \in LifeThreads |-> NoCall]
    /\ late = FALSE
    /\ stopped = FALSE
    /\ RouteIdle /\ SessIdle /\ PoolIdle /\ CrudIdle /\ PathIdle /\ MainIdle
    /\ CacheIdle /\ MdIdle /\ ConfigIdle /\ FsIdle /\ TplIdle /\ LockIdle /\ StoreIdle

\* an idle thread of io_service takes a completed operation and calls its handler
Complete ==
    /\ ~stopped
    /\ \E t \in LifeThreads, c \in SessIds :
         /\ callbacks[t] = NoCall
         /\ \E op \in sess[c].ops :
              /\ sess' = [sess EXCEPT ![c].ops = @ \ {op}]
              /\ callbacks' = [callbacks EXCEPT ![t] = [sess |-> c, op |-> op]]
              /\ late' = (late \/ sess[c].state = "destroyed")
    /\ UNCHANGED stopped
    /\ UNCHANGED exceptLife

\* server::handle_accept(new_session, error), then start_accept
HandleAcceptEnd ==
    /\ \E t \in LifeThreads, error \in BOOLEAN :
         LET c == callbacks[t].sess IN
         /\ callbacks[t].op = "accept"
         /\ sess' = [d \in SessIds |->
                       IF d = c
                       THEN IF error THEN Destroy(sess[c]) ELSE Pending(sess[c], "read")
                       ELSE IF d = c + 1 THEN NewSession
                       ELSE sess[d]]
         /\ callbacks' = [callbacks EXCEPT ![t] = NoCall]
    /\ UNCHANGED <<late, stopped>>
    /\ UNCHANGED exceptLife

\* session::handle_read: end of stream deletes the session, an error or a
\* routed request starts the write, an unrouted request ends the process
HandleReadEnd ==
    /\ \E t \in LifeThreads, outcome \in {"eof", "error", "ok", "unrouted"} :
         LET c == callbacks[t].sess IN
         /\ callbacks[t].op = "read"
         /\ callbacks' = [callbacks EXCEPT ![t] = NoCall]
         /\ IF outcome = "unrouted"
            THEN stopped' = TRUE /\ UNCHANGED sess
            ELSE /\ UNCHANGED stopped
                 /\ sess' = [sess EXCEPT ![c] =
                      [(IF outcome = "eof" THEN Destroy(@) ELSE @)
                          EXCEPT !.ops = @ \cup OpsAfterRead(outcome)]]
    /\ UNCHANGED late
    /\ UNCHANGED exceptLife

\* session::handle_write: an error or a response that closes deletes the
\* session, a keep-alive response calls start()
HandleWriteEnd ==
    /\ \E t \in LifeThreads, error \in BOOLEAN, keep \in BOOLEAN :
         LET c == callbacks[t].sess IN
         /\ callbacks[t].op = "write"
         /\ keep => sess[c].rounds + 1 < MaxRounds
         /\ callbacks' = [callbacks EXCEPT ![t] = NoCall]
         /\ sess' = [sess EXCEPT ![c] =
                       IF error \/ ~keep THEN Destroy(@)
                       ELSE Pending([@ EXCEPT !.rounds = @ + 1], "read")]
    /\ UNCHANGED <<late, stopped>>
    /\ UNCHANGED exceptLife

\* the signal handler: io_service.stop(); handlers still pending are not run
StopService ==
    /\ ~stopped
    /\ stopped' = TRUE
    /\ UNCHANGED <<sess, callbacks, late>>
    /\ UNCHANGED exceptLife

LifeNext ==
    Complete \/ HandleAcceptEnd \/ HandleReadEnd \/ HandleWriteEnd \/ StopService

SpecLife == LifeInit /\ [][LifeNext]_vars

\* C27: a session is destroyed at most once, and once it is destroyed no
\* completion handler that refers to it runs or is still to run.
C27_DestroyedOnceNoLateCallback ==
    /\ ~late
    /\ \A c \in SessIds :
         /\ sess[c].dtors <= 1
         /\ sess[c].state = "destroyed" =>
              /\ sess[c].dtors = 1
              /\ sess[c].ops = {}
              /\ \A t \in LifeThreads : callbacks[t].sess # c

\* a kept-alive session has been destroyed after its second response while
\* a handler of another session runs on the other thread
C27_Witness ==
    \E c, d \in SessIds :
        /\ c # d
        /\ sess[c].state = "destroyed" /\ sess[c].rounds = MaxRounds - 1
        /\ \E t \in LifeThreads : callbacks[t].sess = d

-----------------------------------------------------------------------------
(* g_dir_cache_mu in the directory branch of markdown_handler: each worker *)
(* takes the steps of handle_request for a directory one by one, and the   *)
(* two std::lock_guard blocks are the only places the mutex is held.       *)

\* how many directory requests are answered
MaxServed == 3

LockWorkers == 1..MinThreads

\* the steps of a worker that touch the filesystem or build the page
OutsideSteps == {"scan", "template", "mtime"}
\* the steps inside a std::lock_guard block
LockedSteps == {"lookup", "store"}

\* a lock_guard declared at function scope, still held after a cache miss
HolderAfterMiss_StillHeld(w) == w

\* the holder once the first lock_guard block is left
HolderAfterMiss(w) == 0

LockInit ==
    /\ g_dir_cache_mu = 0
    /\ lpc = [w \in LockWorkers |-> "idle"]
    /\ fresh = FALSE
    /\ served = 0
    /\ RouteIdle /\ SessIdle /\ PoolIdle /\ CrudIdle /\ PathIdle /\ MainIdle
    /\ CacheIdle /\ MdIdle /\ ConfigIdle /\ FsIdle /\ TplIdle /\ LifeIdle /\ StoreIdle

\* a request for the directory arrives at a worker; is_directory, the
\* redirect test and steady_clock::now() come before the first lock
Arrive ==
    /\ served + Cardinality({w \in LockWorkers : lpc[w] # "idle"}) < MaxServed
    /\ \E w \in LockWorkers :
         /\ lpc[w] = "idle"
         /\ lpc' = [lpc EXCEPT ![w] = "arrived"]
    /\ UNCHANGED <<g_dir_cache_mu, fresh, served>>
    /\ UNCHANGED exceptLock

\* std::lock_guard<std::mutex> lk(g_dir_cache_mu), before the lookup and
\* before the store
Acquire ==
    /\ g_dir_cache_mu = 0
    /\ \E w \in LockWorkers :
         /\ lpc[w] \in {"arrived", "rendered"}
         /\ g_dir_cache_mu' = w
         /\ lpc' = [lpc EXCEPT ![w] = IF lpc[w] = "arrived" THEN "lookup" ELSE "store"]
    /\ UNCHANGED <<fresh, served>>
    /\ UNCHANGED exceptLock

\* g_dir_cache.find: a fresh entry is answered from the cache (304 or the
\* cached page) and the guard is released by the return; otherwise the
\* block is left
CacheFind ==
    /\ \E w \in LockWorkers :
         /\ lpc[w] = "lookup" /\ g_dir_cache_mu = w
         /\ IF fresh
            THEN /\ lpc' = [lpc EXCEPT ![w] = "idle"]
                 /\ served' = served + 1
                 /\ g_dir_cache_mu' = 0
            ELSE /\ lpc' = [lpc EXCEPT ![w] = "scan"]
                 /\ g_dir_cache_mu' = HolderAfterMiss(w)
                 /\ UNCHANGED served
    /\ UNCHANGED fresh
    /\ UNCHANGED exceptLock

\* fs::directory_iterator, then read_small_file of the template and the
\* page, then fs::last_write_time and the ETag
Outside ==
    /\ \E w \in LockWorkers :
         /\ lpc[w] \in OutsideSteps
         /\ lpc' = [lpc EXCEPT ![w] =
                      CASE lpc[w] = "scan" -> "template"
                        [] lpc[w] = "template" -> "mtime"
                        [] lpc[w] = "mtime" -> "rendered"]
    /\ UNCHANGED <<g_dir_cache_mu, fresh, served>>
    /\ UNCHANGED exceptLock

\* g_dir_cache[canon_dir] = {...} inside the second lock_guard block, then
\* the response
CacheStore ==
    /\ \E w \in LockWorkers :
         /\ lpc[w] = "store" /\ g_dir_cache_mu = w
         /\ fresh' = TRUE
         /\ g_dir_cache_mu' = 0
         /\ lpc' = [lpc EXCEPT ![w] = "idle"]
         /\ served' = served + 1
    /\ UNCHANGED exceptLock

\* kDirCacheTTL passes since the entry was saved
Expire ==
    /\ fresh
    /\ fresh' = FALSE
    /\ UNCHANGED <<g_dir_cache_mu, lpc, served>>
    /\ UNCHANGED exceptLock

LockNext == Arrive \/ Acquire \/ CacheFind \/ Outside \/ CacheStore \/ Expire

SpecLock == LockInit /\ [][LockNext]_vars

\* C35: the worker that holds g_dir_cache_mu is reading or writing the
\* cache map; no worker holds it while it scans the directory, reads the
\* template, renders the listing or reads the modification time.
C35_MutexOnlyAroundCacheAccess ==
    \A w \in LockWorkers :
        /\ g_dir_cache_mu = w => lpc[w] \in LockedSteps
        /\ lpc[w] \in OutsideSteps => g_dir_cache_mu # w

\* one worker scans the directory while the other holds the mutex for its lookup
C35_Witness ==
    \E w, v \in LockWorkers :
        /\ w # v
        /\ lpc[w] \in OutsideSteps
        /\ g_dir_cache_mu = v /\ lpc[v] = "lookup"

-----------------------------------------------------------------------------
(* One CrudRequestHandler constructed for each request over either         *)
(* FileSystemInterface: the constructor's create_directory(data_path_) and *)
(* handle_request, with the directory listings of both implementations.    *)

MaxEntityId == 1
data_path_ == "./data"
StoreTypes == {"Shoes", "."}
StoreVerbs == {"GET", "POST", "PUT", "DELETE", "PATCH"}

\* data_path_ + "/" + entity_type as the key of the filesystem: a string of
\* its own in the maps of MockFileSystem, the directory it names on disk
EntityDir(impl, type) ==
    IF type = "."
    THEN IF impl = "RealFileSystem" THEN data_path_ ELSE "./data/."
    ELSE "./data/Shoes"

\* the verbs whose handler calls fs_->create_directory(entity_dir)
DirCreatingVerbs_WithGet == {"POST", "PUT", "GET"}
DirCreatingVerbs == {"POST", "PUT"}

\* write_file(dir + "/" + name, b): the file and its entry in the listing
StoreWrite(ds, fl, dir, name, b) ==
    [dirs |-> [d \in DOMAIN ds \cup {dir} |->
                  IF d = dir THEN FsListing(ds, dir) \cup {name} ELSE ds[d]],
     files |-> [p \in DOMAIN fl \cup {<<dir, name>>} |->
                  IF p = <<dir, name>> THEN b ELSE fl[p]]]

\* delete_file(dir + "/" + name) of a file that exists
StoreDelete(ds, fl, dir, name) ==
    [dirs |-> [d \in DOMAIN ds |-> IF d = dir THEN ds[d] \ {name} ELSE ds[d]],
     files |-> [p \in DOMAIN fl \ {<<dir, name>>} |-> fl[p]]]

\* generate_id on the listing of an entity directory that exists
NextId(names) == IF names = {} THEN 1 ELSE SetMax(names) + 1

\* handle_request(req) of a handler over the filesystem (ds, fl): the status
\* of the response and the filesystem afterwards; id = 0 is a path without id
handle_request(impl, ds, fl, verb, type, id, b, ct) ==
    LET same(status) == [status |-> status, dirs |-> ds, files |-> fl]
        dir == EntityDir(impl, type)
        made == IF verb \in DirCreatingVerbs
                THEN create_directory(impl, ds, dir).dirs ELSE ds
    IN
    IF type = "" THEN same(400)
    ELSE IF verb = "POST"
    THEN IF Rejection(b, ct) # 0 THEN same(Rejection(b, ct))
         ELSE LET w == StoreWrite(made, fl, dir, NextId(FsListing(made, dir)), b)
              IN [status |-> 201, dirs |-> w.dirs, files |-> w.files]
    ELSE IF verb = "GET"
    THEN IF id # 0 /\ <<dir, id>> \notin DOMAIN fl
         THEN [status |-> 404, dirs |-> made, files |-> fl]
         ELSE [status |-> 200, dirs |-> made, files |-> fl]
    ELSE IF verb = "PUT"
    THEN IF id = 0 THEN same(400)
         ELSE IF Rejection(b, ct) # 0 THEN same(Rejection(b, ct))
         ELSE LET w == StoreWrite(made, fl, dir, id, b)
              IN [status |-> IF <<dir, id>> \in DOMAIN fl THEN 204 ELSE 201,
                  dirs |-> w.dirs, files |-> w.files]
    ELSE IF verb = "DELETE"
    THEN IF id = 0 THEN same(400)
         ELSE IF <<dir, id>> \notin DOMAIN fl THEN same(404)
         ELSE LET w == StoreDelete(ds, fl, dir, id)
              IN [status |-> 204, dirs |-> w.dirs, files |-> w.files]
    ELSE same(405)

StoreInit ==
    /\ fs_ \in FsImpls
    /\ stDirs = << >>
    /\ stFiles = << >>
    /\ stLast = NoHandled
    /\ RouteIdle /\ SessIdle /\ PoolIdle /\ CrudIdle /\ PathIdle /\ MainIdle
    /\ CacheIdle /\ MdIdle /\ ConfigIdle /\ FsIdle /\ TplIdle /\ LifeIdle /\ LockIdle

\* the factory constructs a handler, whose constructor creates data_path_,
\* and the handler answers one request
StoreRequest ==
    \E verb \in StoreVerbs, type \in StoreTypes \cup {""}, id \in 0..MaxEntityId :
    \E b \in IF verb \in {"POST", "PUT"} THEN Bodies ELSE {""},
       ct \in IF verb \in {"POST", "PUT"} THEN ContentTypes ELSE {""} :
        LET ctor == create_directory(fs_, stDirs, data_path_).dirs
            r == handle_request(fs_, ctor, stFiles, verb, type, id, b, ct)
        IN
        /\ verb = "POST" => NextId(FsListing(stDirs, EntityDir(fs_, type))) <= MaxEntityId
        /\ stDirs' = r.dirs
        /\ stFiles' = r.files
        /\ stLast' = [verb |-> verb, status |-> r.status]
        /\ UNCHANGED fs_
        /\ UNCHANGED exceptStore

StoreNext == StoreRequest

SpecStore == StoreInit /\ [][StoreNext]_vars

\* C38: a CRUD request that is a GET or is answered with a 4xx status leaves
\* every stored entity and the listing of every directory as it was.
C38_ReadsAndRejectionsChangeNothing ==
    [][(stLast'.verb = "GET" \/ stLast'.status \in 400..499) =>
          /\ stFiles' = stFiles
          /\ \A p \in DOMAIN stDirs \cup DOMAIN stDirs' :
                FsListing(stDirs', p) = FsListing(stDirs, p)]_vars

\* a GET answered 200 by a handler whose data directory lists an entity
C38_Witness ==
    /\ stLast.verb = "GET" /\ stLast.status = 200
    /\ FsListing(stDirs, data_path_) # {}
    /\ \E p \in DOMAIN stFiles : p[1] = "./data/Shoes"
=============================================================================
